---- MODULE Spec2Model ----
(***************************************************************************)
(* Model of the numerical core of sp500-convergence:                       *)
(*   - SP500Analyzer (sp500_convergence.py): rolling CAGR and the two      *)
(*     horizon searches;                                                   *)
(*   - GIPSCalculator (gips_compliance.py): return calculations and the    *)
(*     instance-scoped warnings list;                                      *)
(*   - RiskMetricsCalculator (risk_metrics.py): the Sharpe ratio.          *)
(*                                                                         *)
(* Numbers.  Python floats are modelled by exact integer arithmetic:       *)
(*   - an annual return is k / RDen, so a growth factor 1 + r is           *)
(*     (RDen + k) / RDen with RDen + k > 0;                                *)
(*   - a CAGR is a fixed-point number in units of 1 / Scale, where         *)
(*     Scale = RDen * RootK, obtained with an integer (floor) n-th root.   *)
(* Floor rounding keeps the sign tests of the code exact: the modelled     *)
(* cagr is >= 0 exactly when the product of the growth factors is >= 1.    *)
(***************************************************************************)
EXTENDS Integers, Sequences, FiniteSets, TLC

VARIABLES
    years,                 \* SP500Analyzer.years   (sorted by year)
    returns,               \* SP500Analyzer.returns (numerators over RDen)
    calculation_warnings,  \* GIPSCalculator.calculation_warnings
    validation_errors,     \* GIPSCalculator.validation_errors
    call,                  \* the last operation invoked, with its arguments
    ret,                   \* what that operation returned or raised
    heap,                  \* the list objects created by GIPSCalculator.__init__
    calculators,           \* GIPSCalculator instances: their attributes' references
    running,               \* per instance, the operation it is in
    alone,                 \* per instance, the warnings its own operations recorded
    risk_returns,          \* RiskMetricsCalculator.returns
    risk_free_rates,       \* RiskMetricsCalculator.risk_free_rates
    excess_returns         \* RiskMetricsCalculator.excess_returns

instance_vars == <<heap, calculators, running, alone>>
risk_vars == <<risk_returns, risk_free_rates, excess_returns>>

vars == <<years, returns, calculation_warnings, validation_errors, call, ret,
          instance_vars, risk_vars>>

----------------------------------------------------------------------------
(* Bounds of the model *)

MaxLen == 4              \* longest return series
RDen == 2                \* resolution of a return: r = k / RDen
RootK == 10              \* extra resolution of a cagr: c / (RDen * RootK)
FirstYear == 2000        \* first year of every modelled series

Scale == RDen * RootK
ReturnValues == {-1, 0, 2}           \* numerators k of the modelled returns
ThresholdValues == {-1, 0, 6, 15}    \* spread thresholds, in units of 1 / Scale
AbsentYear == FirstYear - 1          \* a year no modelled series contains
YearGaps == {1, 2}                   \* step between the first two years of a series

(* Program constants *)

\* FLOATING_TOLERANCE = 1e-12, in units of 1 / Scale and rounded up: the
\* smallest non-zero |cagr| of the model, 1 / Scale, is above the tolerance.
FLOATING_TOLERANCE == 1
DEFAULT_WINDOWS == <<5, 10, 15, 20, 30>>

----------------------------------------------------------------------------
(* Helpers for the Python list operations the code uses *)

Abs(x) == IF x < 0 THEN -x ELSE x

RECURSIVE Pow(_, _)
Pow(b, e) == IF e = 0 THEN 1 ELSE b * Pow(b, e - 1)

RECURSIVE SeqSum(_)
SeqSum(s) == IF s = <<>> THEN 0 ELSE Head(s) + SeqSum(Tail(s))

RECURSIVE SeqProd(_)
SeqProd(s) == IF s = <<>> THEN 1 ELSE Head(s) * SeqProd(Tail(s))

SeqMin(s) == CHOOSE m \in {s[i] : i \in 1..Len(s)} : \A j \in 1..Len(s) : m <= s[j]
SeqMax(s) == CHOOSE m \in {s[i] : i \in 1..Len(s)} : \A j \in 1..Len(s) : m >= s[j]

\* x in s
Contains(s, x) == \E i \in 1..Len(s) : s[i] = x

\* list.index(x): 0-based position of the first occurrence; it raises
\* ValueError when Contains(s, x) is false, which every caller tests first
IndexOf(s, x) ==
    (CHOOSE i \in 1..Len(s) : s[i] = x /\ \A j \in 1..(i - 1) : s[j] # x) - 1

\* np.argmin / np.argmax: 0-based position of the first minimum / maximum
ArgMin(s) ==
    (CHOOSE i \in 1..Len(s) : s[i] = SeqMin(s) /\ \A j \in 1..(i - 1) : s[j] # SeqMin(s)) - 1
ArgMax(s) ==
    (CHOOSE i \in 1..Len(s) : s[i] = SeqMax(s) /\ \A j \in 1..(i - 1) : s[j] # SeqMax(s)) - 1

\* s[a:b] with 0-based a, b
Slice(s, a, b) == [i \in 1..(b - a) |-> s[a + i]]

\* floor of the n-th root of v, for 0 <= v <= hi^n
Root(n, v, hi) ==
    CHOOSE x \in 0..hi : Pow(x, n) <= v /\ (x = hi \/ Pow(x + 1, n) > v)

\* the outcome of a call: the value it returned, or the exception it raised
Returned(v) == [kind |-> "returned", value |-> v]
Raised(e) == [kind |-> "raised", error |-> e]

\* a scan that ended without returning
NotFound == [found |-> FALSE]

\* f"{a}-{b}"
Label(a, b) == ToString(a) \o "-" \o ToString(b)

----------------------------------------------------------------------------
(* SP500Analyzer *)

\* mutant: the arithmetic mean of the returns instead of the geometric one
WindowCagrAt_ArithmeticMean(window_returns, window_size, rden, rootk) ==
    (SeqSum(window_returns) * rootk) \div window_size

\* lines 75-82: the cagr of one window, total_return ** (1 / n) - 1 with
\* total_return = exp(sum(log(1 + r))) = product of (1 + r), then the snap.
\* In units of 1 / Scale:  Root(n, prod(RDen + k) * RootK^n) - Scale.
\* WindowCagrAt takes the two resolutions as parameters.
WindowCagrAt(window_returns, window_size, rden, rootk) ==
    LET factors == [i \in 1..Len(window_returns) |-> rden + window_returns[i]]
        total_return == SeqProd(factors) * Pow(rootk, window_size)
        cagr == Root(window_size, total_return, SeqMax(factors) * rootk) - rden * rootk
    IN  IF Abs(cagr) < FLOATING_TOLERANCE THEN 0 ELSE cagr

WindowCagr(window_returns, window_size) ==
    WindowCagrAt(window_returns, window_size, RDen, RootK)

\* mutant: a start year that is not found is taken to be the first year
compute_rolling_cagr_DefaultStart(ys, rs, window_size, start_year) ==
    LET start_idx == IF Contains(ys, start_year) THEN IndexOf(ys, start_year) ELSE 0
    IN  IF start_idx + window_size > Len(ys) THEN <<>>
        ELSE [k \in 1..(Len(ys) - window_size + 1 - start_idx) |->
                LET i == start_idx + k - 1
                    end_idx == i + window_size
                IN  <<ys[end_idx], WindowCagr(Slice(rs, i, end_idx), window_size)>>]

\* mutant: each pair carries the first year of its window, not the last
compute_rolling_cagr_FirstYear(ys, rs, window_size, start_year) ==
    LET start_idx == IndexOf(ys, start_year)
    IN  IF ~Contains(ys, start_year) THEN <<>>
        ELSE IF start_idx + window_size > Len(ys) THEN <<>>
        ELSE [k \in 1..(Len(ys) - window_size + 1 - start_idx) |->
                LET i == start_idx + k - 1
                    end_idx == i + window_size
                IN  <<ys[i + 1], WindowCagr(Slice(rs, i, end_idx), window_size)>>]

\* mutant: the window that ends on the last year is refused
compute_rolling_cagr_StrictGuard(ys, rs, window_size, start_year) ==
    LET start_idx == IndexOf(ys, start_year)
    IN  IF ~Contains(ys, start_year) THEN <<>>
        ELSE IF start_idx + window_size >= Len(ys) THEN <<>>
        ELSE [k \in 1..(Len(ys) - window_size + 1 - start_idx) |->
                LET i == start_idx + k - 1
                    end_idx == i + window_size
                IN  <<ys[end_idx], WindowCagr(Slice(rs, i, end_idx), window_size)>>]

\* the list of (end_year, cagr) tuples
compute_rolling_cagr(ys, rs, window_size, start_year) ==
    LET start_idx == IndexOf(ys, start_year)
    IN  IF ~Contains(ys, start_year) THEN <<>>
        ELSE IF start_idx + window_size > Len(ys) THEN <<>>
        ELSE [k \in 1..(Len(ys) - window_size + 1 - start_idx) |->
                LET i == start_idx + k - 1
                    end_idx == i + window_size
                IN  <<ys[end_idx], WindowCagr(Slice(rs, i, end_idx), window_size)>>]

\* dict window_size -> list, as a function on the default window lengths
compute_all_rolling_cagrs(ys, rs, start_year) ==
    [w \in {DEFAULT_WINDOWS[j] : j \in 1..Len(DEFAULT_WINDOWS)} |->
        compute_rolling_cagr(ys, rs, w, start_year)]

CagrValues(cagrs) == [i \in 1..Len(cagrs) |-> cagrs[i][2]]

\* np.mean of the cagrs, in units of 1 / Scale (floor)
Mean(vals) == SeqSum(vals) \div Len(vals)

\* lines 174-192 and 197-216: the statistics of one window length
NoLossRecord(ys, start_year, n, cagrs) ==
    LET vals == CagrValues(cagrs)
        best_idx == ArgMax(vals)
        worst_idx == ArgMin(vals)
        start_idx == IndexOf(ys, start_year)
    IN  [start_year_series |-> start_year,
         min_holding_years |-> n,
         worst_window |-> Label(ys[start_idx + worst_idx + 1], cagrs[worst_idx + 1][1]),
         worst_cagr |-> cagrs[worst_idx + 1][2],
         best_window |-> Label(ys[start_idx + best_idx + 1], cagrs[best_idx + 1][1]),
         best_cagr |-> cagrs[best_idx + 1][2],
         average_cagr |-> Mean(vals),
         num_windows_checked |-> Len(cagrs)]

\* mutant: the best window is tested instead of the worst
NoLossTest_UsesMax(cagrs) == SeqMax(CagrValues(cagrs)) >= 0

\* line 172: the per-n test of the no-loss search
NoLossTest(cagrs) == SeqMin(CagrValues(cagrs)) >= 0

\* mutant: range(1, max_feasible), which leaves max_feasible out
RECURSIVE NoLossScan_StopsEarly(_, _, _, _, _)
NoLossScan_StopsEarly(ys, rs, start_year, n, max_feasible) ==
    IF n >= max_feasible THEN NotFound
    ELSE LET cagrs == compute_rolling_cagr(ys, rs, n, start_year)
         IN  IF cagrs = <<>>
             THEN NoLossScan_StopsEarly(ys, rs, start_year, n + 1, max_feasible)
             ELSE IF NoLossTest(cagrs) THEN NoLossRecord(ys, start_year, n, cagrs)
             ELSE NoLossScan_StopsEarly(ys, rs, start_year, n + 1, max_feasible)

\* mutant: a length is accepted only if every larger feasible length passes too
RECURSIVE NoLossScan_ChecksLarger(_, _, _, _, _)
NoLossScan_ChecksLarger(ys, rs, start_year, n, max_feasible) ==
    IF n > max_feasible THEN NotFound
    ELSE LET cagrs == compute_rolling_cagr(ys, rs, n, start_year)
             larger_pass ==
                 \A m \in (n + 1)..max_feasible :
                     NoLossTest(compute_rolling_cagr(ys, rs, m, start_year))
         IN  IF cagrs = <<>>
             THEN NoLossScan_ChecksLarger(ys, rs, start_year, n + 1, max_feasible)
             ELSE IF NoLossTest(cagrs) /\ larger_pass
             THEN NoLossRecord(ys, start_year, n, cagrs)
             ELSE NoLossScan_ChecksLarger(ys, rs, start_year, n + 1, max_feasible)

\* lines 166-192: the scan n, n + 1, ..., max_feasible; "none" when it ends
RECURSIVE NoLossScan(_, _, _, _, _)
NoLossScan(ys, rs, start_year, n, max_feasible) ==
    IF n > max_feasible THEN NotFound
    ELSE LET cagrs == compute_rolling_cagr(ys, rs, n, start_year)
         IN  IF cagrs = <<>> THEN NoLossScan(ys, rs, start_year, n + 1, max_feasible)
             ELSE IF NoLossTest(cagrs) THEN NoLossRecord(ys, start_year, n, cagrs)
             ELSE NoLossScan(ys, rs, start_year, n + 1, max_feasible)

find_min_no_loss_horizon(ys, rs, start_year) ==
    IF ~Contains(ys, start_year) THEN Raised("ValueError")
    ELSE
    LET max_feasible == Len(ys) - IndexOf(ys, start_year)
        found == NoLossScan(ys, rs, start_year, 1, max_feasible)
        cagrs == compute_rolling_cagr(ys, rs, max_feasible, start_year)
    IN  IF found # NotFound THEN Returned(found)
        ELSE IF cagrs # <<>>
        THEN Returned(NoLossRecord(ys, start_year, max_feasible, cagrs)
                        @@ [note |-> "Condition not met - max feasible horizon used"])
        ELSE Returned(
             [start_year_series |-> start_year,
              min_holding_years |-> "N/A",
              worst_window |-> "N/A",
              worst_cagr |-> "nan",
              best_window |-> "N/A",
              best_cagr |-> "nan",
              average_cagr |-> "nan",
              num_windows_checked |-> 0,
              note |-> "No feasible windows"])

Spread(cagrs) == SeqMax(CagrValues(cagrs)) - SeqMin(CagrValues(cagrs))

\* mutant: the comparison the wrong way round
SpreadTest_Inverted(cagrs, threshold) == Spread(cagrs) >= threshold

\* mutant: a strict comparison
SpreadTest_Strict(cagrs, threshold) == Spread(cagrs) < threshold

\* line 251: the per-n test of the spread search
SpreadTest(cagrs, threshold) == Spread(cagrs) <= threshold

\* lines 253-271
SpreadFoundRecord(ys, start_year, threshold, n, cagrs) ==
    LET vals == CagrValues(cagrs)
        best_idx == ArgMax(vals)
        worst_idx == ArgMin(vals)
        start_idx == IndexOf(ys, start_year)
    IN  [start_year_series |-> start_year,
         threshold |-> threshold,
         min_holding_years |-> n,
         best_window |-> Label(ys[start_idx + best_idx + 1], cagrs[best_idx + 1][1]),
         best_cagr |-> cagrs[best_idx + 1][2],
         worst_window |-> Label(ys[start_idx + worst_idx + 1], cagrs[worst_idx + 1][1]),
         worst_cagr |-> cagrs[worst_idx + 1][2],
         spread |-> Spread(cagrs)]

\* lines 276-297: the fallback record has no worst_window key
SpreadFallbackRecord(ys, start_year, threshold, max_feasible, cagrs) ==
    LET vals == CagrValues(cagrs)
        best_idx == ArgMax(vals)
        worst_idx == ArgMin(vals)
        start_idx == IndexOf(ys, start_year)
    IN  [start_year_series |-> start_year,
         threshold |-> threshold,
         min_holding_years |-> max_feasible,
         best_window |-> Label(ys[start_idx + best_idx + 1], cagrs[best_idx + 1][1]),
         best_cagr |-> cagrs[best_idx + 1][2],
         worst_cagr |-> cagrs[worst_idx + 1][2],
         spread |-> Spread(cagrs),
         note |-> "Threshold not met - max feasible horizon used"]

\* lines 243-271
RECURSIVE SpreadScan(_, _, _, _, _, _)
SpreadScan(ys, rs, start_year, threshold, n, max_feasible) ==
    IF n > max_feasible THEN NotFound
    ELSE LET cagrs == compute_rolling_cagr(ys, rs, n, start_year)
         IN  IF cagrs = <<>>
             THEN SpreadScan(ys, rs, start_year, threshold, n + 1, max_feasible)
             ELSE IF SpreadTest(cagrs, threshold)
             THEN SpreadFoundRecord(ys, start_year, threshold, n, cagrs)
             ELSE SpreadScan(ys, rs, start_year, threshold, n + 1, max_feasible)

find_min_spread_horizon(ys, rs, start_year, threshold) ==
    IF ~Contains(ys, start_year) THEN Raised("ValueError")
    ELSE
    LET max_feasible == Len(ys) - IndexOf(ys, start_year)
        found == SpreadScan(ys, rs, start_year, threshold, 1, max_feasible)
        cagrs == compute_rolling_cagr(ys, rs, max_feasible, start_year)
    IN  IF found # NotFound THEN Returned(found)
        ELSE IF cagrs # <<>>
        THEN Returned(SpreadFallbackRecord(ys, start_year, threshold, max_feasible, cagrs))
        ELSE Returned(
             [start_year_series |-> start_year,
              threshold |-> threshold,
              min_holding_years |-> "N/A",
              best_window |-> "N/A",
              best_cagr |-> "nan",
              worst_window |-> "N/A",
              worst_cagr |-> "nan",
              spread |-> "nan",
              note |-> "No feasible windows"])

----------------------------------------------------------------------------
(* The analyzer as a state machine: construction, then calls *)

\* SP500Analyzer.__init__ sorts by year; the modelled series are the sorted
\* series of distinct years FirstYear, FirstYear + gap, FirstYear + gap + 1, ...
YearSeries(len, gap) == [i \in 1..len |-> IF i = 1 THEN FirstYear ELSE FirstYear + gap + (i - 2)]

StartYears(ys) == {ys[i] : i \in 1..Len(ys)} \cup {AbsentYear}
WindowSizes == 1..(MaxLen + 1) \cup {DEFAULT_WINDOWS[1]}

NoCall == [op |-> "none"]

\* no GIPSCalculator pair and no RiskMetricsCalculator has been constructed
NoInstances == heap = <<>> /\ calculators = <<>> /\ running = <<>> /\ alone = <<>>
NoRiskCalculator ==
    risk_returns = <<>> /\ risk_free_rates = <<>> /\ excess_returns = <<>>

InitAnalyzer ==
    /\ \E len \in 1..MaxLen, gap \in YearGaps :
          /\ years = YearSeries(len, gap)
          /\ returns \in [1..len -> ReturnValues]
    /\ calculation_warnings = <<>>
    /\ validation_errors = <<>>
    /\ call = NoCall
    /\ ret = NoCall
    /\ NoInstances
    /\ NoRiskCalculator

ComputeRollingCagr ==
    /\ call = NoCall
    /\ \E w \in WindowSizes, sy \in StartYears(years) :
        /\ call' = [op |-> "compute_rolling_cagr", window_size |-> w, start_year |-> sy]
        /\ ret' = Returned(compute_rolling_cagr(years, returns, w, sy))
        /\ UNCHANGED <<years, returns, calculation_warnings, validation_errors, instance_vars, risk_vars>>

ComputeAllRollingCagrs ==
    /\ call = NoCall
    /\ \E sy \in StartYears(years) :
        /\ call' = [op |-> "compute_all_rolling_cagrs", start_year |-> sy]
        /\ ret' = Returned(compute_all_rolling_cagrs(years, returns, sy))
        /\ UNCHANGED <<years, returns, calculation_warnings, validation_errors, instance_vars, risk_vars>>

FindMinNoLossHorizon ==
    /\ call = NoCall
    /\ \E sy \in StartYears(years) :
        /\ call' = [op |-> "find_min_no_loss_horizon", start_year |-> sy]
        /\ ret' = find_min_no_loss_horizon(years, returns, sy)
        /\ UNCHANGED <<years, returns, calculation_warnings, validation_errors, instance_vars, risk_vars>>

FindMinSpreadHorizon ==
    /\ call = NoCall
    /\ \E sy \in StartYears(years), th \in ThresholdValues :
        /\ call' = [op |-> "find_min_spread_horizon", start_year |-> sy, threshold |-> th]
        /\ ret' = find_min_spread_horizon(years, returns, sy, th)
        /\ UNCHANGED <<years, returns, calculation_warnings, validation_errors, instance_vars, risk_vars>>

\* the caller takes the returned value; the analyzer itself keeps no trace
\* of a call (its methods assign no attribute)
AnalyzerReturn ==
    /\ call # NoCall
    /\ call.op \in {"compute_rolling_cagr", "compute_all_rolling_cagrs",
                    "find_min_no_loss_horizon", "find_min_spread_horizon"}
    /\ call' = NoCall
    /\ ret' = NoCall
    /\ UNCHANGED <<years, returns, calculation_warnings, validation_errors, instance_vars, risk_vars>>

NextAnalyzer ==
    \/ ComputeRollingCagr
    \/ ComputeAllRollingCagrs
    \/ FindMinNoLossHorizon
    \/ FindMinSpreadHorizon
    \/ AnalyzerReturn

SpecAnalyzer == InitAnalyzer /\ [][NextAnalyzer]_vars

----------------------------------------------------------------------------
(* GIPSCalculator                                                           *)
(*                                                                          *)
(* A date is a day number; a PortfolioValuation is [date, market_value] and *)
(* a CashFlow is [date, amount] (the other fields are never read by the     *)
(* calculations).  Money is an integer number of units.  A return is an     *)
(* exact fraction [num, den] in lowest terms with den > 0.                  *)

RECURSIVE Gcd(_, _)
Gcd(a, b) == IF b = 0 THEN a ELSE Gcd(b, a % b)

Frac(n, d) ==
    LET g == Gcd(Abs(n), Abs(d))
        sgn == IF d < 0 THEN -1 ELSE 1
    IN  [num |-> sgn * (n \div g), den |-> sgn * (d \div g)]

\* sorted(xs, key=lambda x: x.date): a stable insertion sort
RECURSIVE InsertByDate(_, _)
InsertByDate(sorted, x) ==
    IF sorted = <<>> THEN <<x>>
    ELSE IF sorted[Len(sorted)].date <= x.date THEN Append(sorted, x)
    ELSE Append(InsertByDate(SubSeq(sorted, 1, Len(sorted) - 1), x), sorted[Len(sorted)])

RECURSIVE SortByDateFrom(_, _)
SortByDateFrom(sorted, rest) ==
    IF rest = <<>> THEN sorted
    ELSE SortByDateFrom(InsertByDate(sorted, Head(rest)), Tail(rest))

\* mutant: the inputs are used in the order they were passed
SortByDate_Unsorted(xs) == xs

SortByDate(xs) == SortByDateFrom(<<>>, xs)

\* mutant: only an empty list is refused
TooFewValuations_OffByOne(valuations) == Len(valuations) < 1

\* line 106 and line 172: the input test of the two return calculations
TooFewValuations(valuations) == Len(valuations) < 2

\* mutant: a flow dated on the starting valuation is counted in the sub-period
NetCashFlow_ClosedStart(cash_flows, start_val, end_val) ==
    LET inPeriod(cf) == start_val.date <= cf.date /\ cf.date <= end_val.date
    IN  SeqSum([j \in 1..Len(cash_flows) |->
                    IF inPeriod(cash_flows[j]) THEN cash_flows[j].amount ELSE 0])

\* lines 121-127: net cash flow of the sub-period (start_val, end_val]
NetCashFlow(cash_flows, start_val, end_val) ==
    LET inPeriod(cf) == start_val.date < cf.date /\ cf.date <= end_val.date
    IN  SeqSum([j \in 1..Len(cash_flows) |->
                    IF inPeriod(cash_flows[j]) THEN cash_flows[j].amount ELSE 0])

\* line 129: the sub-period whose return is forced to 0
ForcedZero(start_val) == start_val.market_value <= 0

ZeroStartWarning(start_val) ==
    "Zero or negative starting value on " \o ToString(start_val.date)

\* lines 116-148 on the sorted inputs: the growth factor 1 + sub_return of
\* sub-period i as the pair <<numerator, denominator>>
SubPeriodFactor(vals, cfs, i) ==
    IF ForcedZero(vals[i]) THEN <<1, 1>>
    ELSE <<vals[i + 1].market_value - NetCashFlow(cfs, vals[i], vals[i + 1]),
           vals[i].market_value>>

\* result [outcome, warnings]: what the call returns or raises and what it
\* appends to calculation_warnings
calculate_time_weighted_return(valuations, cash_flows) ==
    IF TooFewValuations(valuations)
    THEN [outcome |-> Raised("ValueError"), warnings |-> <<>>]
    ELSE
    LET vals == SortByDate(valuations)
        cfs == SortByDate(cash_flows)
        periods == 1..(Len(vals) - 1)
        factors == [i \in periods |-> SubPeriodFactor(vals, cfs, i)]
        num == SeqProd([i \in periods |-> factors[i][1]])
        den == SeqProd([i \in periods |-> factors[i][2]])
        forced == SelectSeq([i \in periods |-> i], LAMBDA i : ForcedZero(vals[i]))
    IN  [outcome |-> Returned(Frac(num - den, den)),
         warnings |-> [k \in 1..Len(forced) |-> ZeroStartWarning(vals[forced[k]])]]

\* min(valuations, key=date) and max(valuations, key=date): the first
\* element with the least / greatest date
MinByDate(xs) ==
    xs[CHOOSE i \in 1..Len(xs) :
          /\ \A j \in 1..Len(xs) : xs[i].date <= xs[j].date
          /\ \A j \in 1..(i - 1) : xs[j].date # xs[i].date]
MaxByDate(xs) ==
    xs[CHOOSE i \in 1..Len(xs) :
          /\ \A j \in 1..Len(xs) : xs[i].date >= xs[j].date
          /\ \A j \in 1..(i - 1) : xs[j].date # xs[i].date]

\* lines 179-191: the timeline of <<amount, days>> pairs
AllFlows(valuations, cash_flows) ==
    LET start_val == MinByDate(valuations)
        end_val == MaxByDate(valuations)
    IN  <<<<-start_val.market_value, 0>>>>
        \o [j \in 1..Len(cash_flows) |->
              <<cash_flows[j].amount, cash_flows[j].date - start_val.date>>]
        \o <<<<end_val.market_value, end_val.date - start_val.date>>>>

\* Lines 196-212 evaluate NPV and its derivative in floating point, with
\* non-integer powers of 1 + rate.  Two cases are told apart.
\*  - Every flow has days = 0 or amount = 0: each term of the derivative is
\*    0 and each factor of a non-zero term of NPV is 1, so npv is the sum of
\*    the amounts at day 0 whatever the rate, and the derivative is 0.
\*  - Otherwise the outcome of one iteration depends on floating-point
\*    values the model does not compute; it is one of
\*       "converged"  abs(npv) < tolerance                    (line 205)
\*       "flat"       abs(npv_derivative) < tolerance         (line 208)
\*       "step"       rate = rate - npv / npv_derivative      (line 212)
\*       "raise"      the power or the division raises (OverflowError,
\*                    ZeroDivisionError)                      (lines 201-203)
\*    and the sequence of outcomes of a call is an input of the model.
RateIndependent(flows) == \A j \in 1..Len(flows) : flows[j][1] = 0 \/ flows[j][2] = 0

NpvAtDayZero(flows) == SeqSum([j \in 1..Len(flows) |-> IF flows[j][2] = 0 THEN flows[j][1] ELSE 0])

IterationOutcomes == {"converged", "flat", "step", "raise"}

IterationOutcome(flows, tolerance, oracle, iteration) ==
    IF RateIndependent(flows)
    THEN IF Abs(NpvAtDayZero(flows)) < tolerance THEN "converged" ELSE "flat"
    ELSE oracle[iteration + 1]

UnstableWarning == "IRR calculation may be unstable"
NotConvergedWarning(max_iterations) ==
    "IRR calculation did not converge after " \o ToString(max_iterations) \o " iterations"

\* the rate after `updates` Newton updates of the initial guess 0.1
Rate(updates) == [rate_after_updates |-> updates]

\* lines 196-217: the loop from `iteration` on, with the warnings so far.
\* The iterations before the first one that is not a "step" only update
\* the rate, so the loop is decided by that first iteration, if there is one
\* below max_iterations.
NewtonLoop(flows, max_iterations, tolerance, oracle, iteration, warns) ==
    LET Ends(k) ==
            \/ RateIndependent(flows)
            \/ k + 1 <= Len(oracle) /\ oracle[k + 1] # "step"
        ending == {k \in iteration..(max_iterations - 1) : Ends(k)}
    IN  IF ending = {}
        THEN [outcome |-> Returned(Rate(IF iteration >= max_iterations
                                        THEN iteration ELSE max_iterations)),
              warnings |-> Append(warns, NotConvergedWarning(max_iterations))]
        ELSE LET last == CHOOSE k \in ending : \A j \in ending : k <= j
                 o == IterationOutcome(flows, tolerance, oracle, last)
             IN  IF o = "raise"
                 THEN [outcome |-> Raised("ArithmeticError"), warnings |-> warns]
                 ELSE IF o = "converged"
                 THEN [outcome |-> Returned(Rate(last)), warnings |-> warns]
                 ELSE [outcome |-> Returned(Rate(last)),
                       warnings |-> (warns \o <<UnstableWarning>>)
                                       \o <<NotConvergedWarning(max_iterations)>>]

calculate_money_weighted_return(valuations, cash_flows, max_iterations, tolerance, oracle) ==
    IF TooFewValuations(valuations)
    THEN [outcome |-> Raised("ValueError"), warnings |-> <<>>]
    ELSE NewtonLoop(AllFlows(valuations, cash_flows), max_iterations, tolerance, oracle, 0, <<>>)

\* lines 243-246: the whole-day span of the period; dates are day numbers
\* (datetimes at midnight), so timedelta.days is their difference
TotalDays(period_start, period_end) == period_end - period_start

\* mutant: a period of no days is accepted
InvalidPeriod_AllowsZero(period_start, period_end) ==
    TotalDays(period_start, period_end) < 0

\* line 245
InvalidPeriod(period_start, period_end) == TotalDays(period_start, period_end) <= 0

\* mutant: the end of the period is not tested
InPeriod_NoUpperBound(cf, period_start, period_end) == period_start <= cf.date

\* line 252
InPeriod(cf, period_start, period_end) ==
    period_start <= cf.date /\ cf.date <= period_end

\* lines 251-256: total_cash_flows, and weighted_cash_flows multiplied by
\* total_days (each weight is days_remaining / total_days)
TotalCashFlows(cash_flows, period_start, period_end) ==
    SeqSum([j \in 1..Len(cash_flows) |->
               IF InPeriod(cash_flows[j], period_start, period_end)
               THEN cash_flows[j].amount ELSE 0])

WeightedCashFlowsTimesDays(cash_flows, period_start, period_end) ==
    SeqSum([j \in 1..Len(cash_flows) |->
               IF InPeriod(cash_flows[j], period_start, period_end)
               THEN cash_flows[j].amount * (period_end - cash_flows[j].date) ELSE 0])

\* start_value + weighted_cash_flows, multiplied by total_days
DietzDenominatorTimesDays(start_value, cash_flows, period_start, period_end) ==
    start_value * TotalDays(period_start, period_end)
        + WeightedCashFlowsTimesDays(cash_flows, period_start, period_end)

DietzWarning == "Denominator close to zero in Modified Dietz calculation"

\* lines 219-267; result [outcome, warnings]
calculate_modified_dietz_return(start_value, end_value, cash_flows, period_start, period_end) ==
    IF InvalidPeriod(period_start, period_end)
    THEN [outcome |-> Raised("ValueError"), warnings |-> <<>>]
    ELSE
    LET den == DietzDenominatorTimesDays(start_value, cash_flows, period_start, period_end)
        num == (end_value - start_value
                   - TotalCashFlows(cash_flows, period_start, period_end))
               * TotalDays(period_start, period_end)
    IN  IF den <= 0   \* line 258; total_days > 0 here
        THEN [outcome |-> Returned(Frac(0, 1)), warnings |-> <<DietzWarning>>]
        ELSE [outcome |-> Returned(Frac(num, den)), warnings |-> <<>>]

\* lines 269-302: portfolio_returns is a list of <<return, weight>> pairs
calculate_composite_return(portfolio_returns, method) ==
    LET n == Len(portfolio_returns)
        total_weight == SeqSum([j \in 1..n |-> portfolio_returns[j][2]])
        weighted_return ==
            SeqSum([j \in 1..n |-> portfolio_returns[j][1] * portfolio_returns[j][2]])
        sum_returns == SeqSum([j \in 1..n |-> portfolio_returns[j][1]])
    IN  IF portfolio_returns = <<>> THEN Returned(Frac(0, 1))
        ELSE IF method = "asset_weighted"
        THEN IF total_weight <= 0 THEN Returned(Frac(0, 1))
             ELSE Returned(Frac(weighted_return, total_weight))
        ELSE IF method = "equal_weighted"
        THEN Returned(Frac(sum_returns, n))
        ELSE Raised("ValueError")

\* ReturnCalculationMethod (lines 26-31) and ComplianceLevel (lines 34-38)
ReturnCalculationMethod ==
    {"time_weighted", "money_weighted", "modified_dietz", "true_time_weighted"}
ComplianceLevel == {"full_compliance", "partial_compliance", "non_compliant"}

MethodNote == "GIPS requires time-weighted returns for most composites"
PortfoliosNote ==
    "Composite should include at least 5 portfolios for statistical significance"
PeriodNote == "GIPS recommends at least one year of performance history"
WarningNote(warning) == "Calculation warning: " \o warning

\* lines 325-328
MethodFails(calculation_result) ==
    calculation_result.calculation_method \notin {"time_weighted", "true_time_weighted"}
\* line 335
TooFewPortfolios(calculation_result) == calculation_result.number_of_portfolios < 5
\* lines 348-349
ShortPeriod(calculation_result) ==
    calculation_result.period_end - calculation_result.period_start < 365

\* mutant: the warnings are surfaced after the period note
ValidationNotes_WarningsLast(calculation_result, warnings) ==
    (IF MethodFails(calculation_result) THEN <<MethodNote>> ELSE <<>>)
    \o (IF TooFewPortfolios(calculation_result) THEN <<PortfoliosNote>> ELSE <<>>)
    \o (IF ShortPeriod(calculation_result) THEN <<PeriodNote>> ELSE <<>>)
    \o [k \in 1..Len(warnings) |-> WarningNote(warnings[k])]

\* lines 321-352: validation_notes
ValidationNotes(calculation_result, warnings) ==
    (IF MethodFails(calculation_result) THEN <<MethodNote>> ELSE <<>>)
    \o (IF TooFewPortfolios(calculation_result) THEN <<PortfoliosNote>> ELSE <<>>)
    \o [k \in 1..Len(warnings) |-> WarningNote(warnings[k])]
    \o (IF ShortPeriod(calculation_result) THEN <<PeriodNote>> ELSE <<>>)

\* mutant: the portfolio-count check is counted as an issue too
ComplianceIssues_CountsPortfolios(calculation_result) ==
    (IF MethodFails(calculation_result) THEN 1 ELSE 0)
        + (IF TooFewPortfolios(calculation_result) THEN 1 ELSE 0)

\* lines 322, 332: compliance_issues is incremented by the method check only
ComplianceIssues(calculation_result) == IF MethodFails(calculation_result) THEN 1 ELSE 0

\* lines 304-362 on the instance's calculation_warnings
validate_gips_compliance(calculation_result, warnings) ==
    LET compliance_issues == ComplianceIssues(calculation_result)
        compliance_level ==
            IF compliance_issues = 0 /\ Len(warnings) = 0 THEN "full_compliance"
            ELSE IF compliance_issues <= 2 THEN "partial_compliance"
            ELSE "non_compliant"
    IN  Returned([compliance_level |-> compliance_level,
                  validation_notes |-> ValidationNotes(calculation_result, warnings)])

\* mutant: a call starts from an empty list
AppendWarnings_Reset(before, added) == added

\* self.calculation_warnings.append(...) for each warning of a call
AppendWarnings(before, added) == before \o added

----------------------------------------------------------------------------
(* The calculator as a state machine: construction, then calls *)

MaxPriorWarnings == 1    \* calls are explored on at most this many earlier warnings

DateValues == {1, 2, 3}
MarketValues == {0, 1, 2}
AmountValues == {-1, 2}
MaxIterationValues == {0, 2}

\* tolerance = 1e-6 (the default), in money units and rounded up: the
\* smallest non-zero |npv| of a rate-independent timeline is one unit
TOLERANCE_DEFAULT == 1

\* the lists of records [date, <field>] with distinct dates from `dates`
\* and the field from `values`
RECURSIVE DatedLists(_, _, _, _)
DatedLists(dates, field, values, maxlen) ==
    IF maxlen = 0 THEN {<<>>}
    ELSE LET shorter == DatedLists(dates, field, values, maxlen - 1)
         IN  shorter \cup
             {Append(xs, [date |-> d] @@ (field :> v)) :
                 xs \in {x \in shorter : Len(x) = maxlen - 1}, d \in dates, v \in values}

DistinctDates(xs) == \A i, j \in 1..Len(xs) : i # j => xs[i].date # xs[j].date

ValuationInputs(maxlen) ==
    {xs \in DatedLists(DateValues, "market_value", MarketValues, maxlen) : DistinctDates(xs)}
CashFlowInputs == DatedLists(DateValues, "amount", AmountValues, 1)

\* cash flows of a Modified Dietz call: up to two, inside or outside the period
DietzCashFlowInputs == DatedLists(DateValues, "amount", AmountValues, 2)

\* <<return, weight>> pairs; a return is a whole number of units
ReturnUnitValues == {-1, 0, 3}
WeightValues == {0, 1, 2}
PortfolioReturnInputs ==
    LET pairs == ReturnUnitValues \X WeightValues
    IN  {<<>>} \cup {<<p>> : p \in pairs} \cup {<<p, q>> : p \in pairs, q \in pairs}
MethodInputs == {"asset_weighted", "equal_weighted", "median"}

\* the fields of a GIPSCalculationResult that validation reads
CalculationResultInputs ==
    [calculation_method : ReturnCalculationMethod,
     number_of_portfolios : {4, 5},
     period_start : {1},
     period_end : {365, 366}]

\* the two arguments of validate_gips_compliance that its body never reads
\* (lines 306-307): a list of portfolio dicts and an optional benchmark dict
PortfoliosDataInputs == {<<>>, <<[portfolio_id |-> "P1", return_value |-> 3]>>}
BenchmarkDataInputs == {[none |-> TRUE], [none |-> FALSE, return_value |-> -1]}

\* the outcome sequences of a call that makes at most m iterations: steps,
\* then possibly one outcome that ends the loop
RECURSIVE Steps(_)
Steps(k) == IF k = 0 THEN <<>> ELSE Append(Steps(k - 1), "step")

OracleInputs(m) ==
    {Steps(m)} \cup
    {Append(Steps(k), e) : k \in 0..(m - 1), e \in IterationOutcomes \ {"step"}}

InitGips ==
    /\ years = <<FirstYear>>
    /\ returns = <<0>>
    /\ calculation_warnings = <<>>
    /\ validation_errors = <<>>
    /\ call = NoCall
    /\ ret = NoCall
    /\ NoInstances
    /\ NoRiskCalculator

CalculateTimeWeightedReturn ==
    /\ call = NoCall
    /\ Len(calculation_warnings) <= MaxPriorWarnings
    /\ \E valuations \in ValuationInputs(3), cash_flows \in CashFlowInputs :
        LET r == calculate_time_weighted_return(valuations, cash_flows)
        IN  /\ call' = [op |-> "calculate_time_weighted_return",
                        valuations |-> valuations, cash_flows |-> cash_flows,
                        warnings_before |-> calculation_warnings]
            /\ ret' = r.outcome
            /\ calculation_warnings' = AppendWarnings(calculation_warnings, r.warnings)
            /\ UNCHANGED <<years, returns, validation_errors, instance_vars, risk_vars>>

CalculateMoneyWeightedReturn ==
    /\ call = NoCall
    /\ Len(calculation_warnings) <= MaxPriorWarnings
    /\ \E valuations \in ValuationInputs(2), cash_flows \in CashFlowInputs,
          max_iterations \in MaxIterationValues :
        \E oracle \in OracleInputs(max_iterations) :
            LET r == calculate_money_weighted_return(
                        valuations, cash_flows, max_iterations, TOLERANCE_DEFAULT, oracle)
            IN  /\ call' = [op |-> "calculate_money_weighted_return",
                            valuations |-> valuations, cash_flows |-> cash_flows,
                            max_iterations |-> max_iterations, oracle |-> oracle,
                            warnings_before |-> calculation_warnings]
                /\ ret' = r.outcome
                /\ calculation_warnings' = AppendWarnings(calculation_warnings, r.warnings)
                /\ UNCHANGED <<years, returns, validation_errors, instance_vars, risk_vars>>

CalculateModifiedDietzReturn ==
    /\ call = NoCall
    /\ Len(calculation_warnings) <= MaxPriorWarnings
    /\ \E start_value \in MarketValues, end_value \in MarketValues,
          cash_flows \in DietzCashFlowInputs,
          period_start \in DateValues, period_end \in DateValues :
        LET r == calculate_modified_dietz_return(
                    start_value, end_value, cash_flows, period_start, period_end)
        IN  /\ call' = [op |-> "calculate_modified_dietz_return",
                        start_value |-> start_value, end_value |-> end_value,
                        cash_flows |-> cash_flows,
                        period_start |-> period_start, period_end |-> period_end,
                        warnings_before |-> calculation_warnings]
            /\ ret' = r.outcome
            /\ calculation_warnings' = AppendWarnings(calculation_warnings, r.warnings)
            /\ UNCHANGED <<years, returns, validation_errors, instance_vars, risk_vars>>

CalculateCompositeReturn ==
    /\ call = NoCall
    /\ Len(calculation_warnings) <= MaxPriorWarnings
    /\ \E portfolio_returns \in PortfolioReturnInputs, method \in MethodInputs :
        /\ call' = [op |-> "calculate_composite_return",
                    portfolio_returns |-> portfolio_returns, method |-> method,
                    warnings_before |-> calculation_warnings]
        /\ ret' = calculate_composite_return(portfolio_returns, method)
        /\ UNCHANGED <<years, returns, calculation_warnings, validation_errors, instance_vars, risk_vars>>

ValidateGipsCompliance ==
    /\ call = NoCall
    /\ \E calculation_result \in CalculationResultInputs,
          portfolios_data \in PortfoliosDataInputs,
          benchmark_data \in BenchmarkDataInputs :
        /\ call' = [op |-> "validate_gips_compliance",
                    calculation_result |-> calculation_result,
                    portfolios_data |-> portfolios_data,
                    benchmark_data |-> benchmark_data,
                    warnings_before |-> calculation_warnings]
        /\ ret' = validate_gips_compliance(calculation_result, calculation_warnings)
        /\ UNCHANGED <<years, returns, calculation_warnings, validation_errors, instance_vars, risk_vars>>

ClearWarnings ==
    /\ call = NoCall
    /\ calculation_warnings' = <<>>
    /\ validation_errors' = <<>>
    /\ UNCHANGED <<years, returns, call, ret, instance_vars, risk_vars>>

\* the caller takes the returned value (or catches the exception); the
\* warnings stay on the instance
GipsReturn ==
    /\ call # NoCall
    /\ call.op \in {"calculate_time_weighted_return", "calculate_money_weighted_return",
                   "calculate_modified_dietz_return", "calculate_composite_return",
                   "validate_gips_compliance"}
    /\ call' = NoCall
    /\ ret' = NoCall
    /\ UNCHANGED <<years, returns, calculation_warnings, validation_errors, instance_vars, risk_vars>>

NextGips ==
    \/ CalculateTimeWeightedReturn
    \/ CalculateMoneyWeightedReturn
    \/ CalculateModifiedDietzReturn
    \/ CalculateCompositeReturn
    \/ ValidateGipsCompliance
    \/ ClearWarnings
    \/ GipsReturn

SpecGips == InitGips /\ [][NextGips]_vars

----------------------------------------------------------------------------
(* Two GIPSCalculator instances used side by side                           *)
(*                                                                          *)
(* A Python list is an object: heap[k] is the content of list object k and  *)
(* an attribute holds a reference k.  Each instance is used by one caller,  *)
(* and the callers' operations interleave between any two appends.          *)

\* mutant: one list created once and shared by every instance (a class
\* attribute or a mutable default argument)
NewList_Shared(h) ==
    [heap |-> IF h = <<>> THEN <<<<>>>> ELSE h, ref |-> 1]

\* the expression [] : a new, empty list object
NewList(h) == [heap |-> Append(h, <<>>), ref |-> Len(h) + 1]

\* gips_compliance.py lines 82-84
GIPSCalculator__init__(h) ==
    LET errors == NewList(h)
        warnings == NewList(errors.heap)
    IN  [heap |-> warnings.heap,
         self |-> [validation_errors |-> errors.ref,
                   calculation_warnings |-> warnings.ref]]

\* the content of an instance's calculation_warnings
WarningsOf(i) == heap[calculators[i].calculation_warnings]

InitInstances ==
    /\ years = <<FirstYear>>
    /\ returns = <<0>>
    /\ calculation_warnings = <<>>
    /\ validation_errors = <<>>
    /\ call = NoCall
    /\ ret = NoCall
    /\ NoRiskCalculator
    /\ LET first == GIPSCalculator__init__(<<>>)
           second == GIPSCalculator__init__(first.heap)
       IN  /\ heap = second.heap
           /\ calculators = <<first.self, second.self>>
    /\ running = <<NoCall, NoCall>>
    /\ alone = <<<<>>, <<>>>>

single_vars == <<years, returns, calculation_warnings, validation_errors, call, ret>>

\* calculate_time_weighted_return up to its first append: the warnings the
\* call will append are `pending`
InstanceCalculate ==
    \E i \in DOMAIN calculators :
        /\ running[i] = NoCall
        /\ Len(WarningsOf(i)) <= MaxPriorWarnings
        /\ \E valuations \in ValuationInputs(3) :
            LET r == calculate_time_weighted_return(valuations, <<>>)
            IN  running' = [running EXCEPT ![i] =
                               [op |-> "calculate_time_weighted_return",
                                pending |-> r.warnings]]
        /\ UNCHANGED <<heap, calculators, alone, single_vars, risk_vars>>

\* lines 131-133: one self.calculation_warnings.append(...)
InstanceAppendWarning ==
    \E i \in DOMAIN calculators :
        /\ running[i].op = "calculate_time_weighted_return"
        /\ running[i].pending # <<>>
        /\ heap' = [heap EXCEPT ![calculators[i].calculation_warnings] =
                       AppendWarnings(@, <<Head(running[i].pending)>>)]
        /\ alone' = [alone EXCEPT ![i] = Append(@, Head(running[i].pending))]
        /\ running' = [running EXCEPT ![i].pending = Tail(@)]
        /\ UNCHANGED <<calculators, single_vars, risk_vars>>

\* results of a full year on five portfolios, by any method
InstanceResultInputs ==
    {r \in CalculationResultInputs : r.number_of_portfolios = 5 /\ r.period_end = 366}

InstanceValidate ==
    \E i \in DOMAIN calculators :
        /\ running[i] = NoCall
        /\ \E calculation_result \in InstanceResultInputs :
              running' = [running EXCEPT ![i] =
                  [op |-> "validate_gips_compliance",
                   calculation_result |-> calculation_result,
                   outcome |-> validate_gips_compliance(calculation_result, WarningsOf(i))]]
        /\ UNCHANGED <<heap, calculators, alone, single_vars, risk_vars>>

\* lines 421-424
InstanceClearWarnings ==
    \E i \in DOMAIN calculators :
        /\ running[i] = NoCall
        /\ heap' = [heap EXCEPT ![calculators[i].calculation_warnings] = <<>>,
                                ![calculators[i].validation_errors] = <<>>]
        /\ alone' = [alone EXCEPT ![i] = <<>>]
        /\ running' = [running EXCEPT ![i] = [op |-> "clear_warnings"]]
        /\ UNCHANGED <<calculators, single_vars, risk_vars>>

\* the operation of instance i returns to its caller
InstanceReturn ==
    \E i \in DOMAIN calculators :
        /\ running[i] # NoCall
        /\ running[i].op = "calculate_time_weighted_return" => running[i].pending = <<>>
        /\ running' = [running EXCEPT ![i] = NoCall]
        /\ UNCHANGED <<heap, calculators, alone, single_vars, risk_vars>>

NextInstances ==
    \/ InstanceCalculate
    \/ InstanceAppendWarning
    \/ InstanceValidate
    \/ InstanceClearWarnings
    \/ InstanceReturn

SpecInstances == InitInstances /\ [][NextInstances]_vars

----------------------------------------------------------------------------
(* RiskMetricsCalculator                                                    *)
(*                                                                          *)
(* sharpe_ratio compares a computed standard deviation with 0 exactly, so   *)
(* the rounding of each floating-point operation decides its result.  A     *)
(* float is modelled as an integer with at most MantissaBits significant    *)
(* bits (a binary floating-point format whose smallest exponent is 0), and  *)
(* every operation rounds its exact result to the nearest float, ties to    *)
(* even, as IEEE 754 does.  A return of 0.05 is the integer 5.              *)

MantissaBits == 4        \* significant bits of a float
MaxObservations == 4     \* longest returns vector

\* risk_metrics.py line 27: 0.02
RISK_FREE_RATE_DEFAULT == 2

\* the exponent e of the float nearest to num / den: the floats of that
\* binade are the multiples of 2^e
PowersOfTwo == [e \in 0..(MantissaBits + 12) |-> Pow(2, e)]
FlExponent(num, den) ==
    CHOOSE e \in 0..12 :
        /\ Abs(num) < den * PowersOfTwo[MantissaBits + e]
        /\ e = 0 \/ Abs(num) >= den * PowersOfTwo[MantissaBits + e - 1]

\* the multiple of g nearest to a / den (a >= 0, den > 0), ties to the even
\* multiple
FlNearest(a, den, g) ==
    LET k == a \div (den * g)
        twice_rem == 2 * (a - k * den * g)
    IN  IF twice_rem > den * g \/ (twice_rem = den * g /\ k % 2 = 1)
        THEN (k + 1) * g
        ELSE k * g

\* num / den (den > 0) rounded to the nearest float, ties to even
FlRound(num, den) ==
    (IF num < 0 THEN -1 ELSE 1)
        * FlNearest(Abs(num), den, PowersOfTwo[FlExponent(num, den)])

\* np.add.reduce on fewer than 8 elements: a running sum from 0
RECURSIVE FlSumFrom(_, _)
FlSumFrom(acc, xs) ==
    IF xs = <<>> THEN acc ELSE FlSumFrom(FlRound(acc + Head(xs), 1), Tail(xs))
FlSum(xs) == FlSumFrom(0, xs)

\* the sums of the neighbouring pairs xs[1] + xs[2], xs[3] + xs[4], ...
AddPairs(xs) ==
    [p \in 1..(Len(xs) \div 2) |-> FlRound(xs[2 * p - 1] + xs[2 * p], 1)]

\* np.add.reduce of a float array (numpy's pairwise summation on a block of
\* at most 128 elements): a running sum for fewer than 8 elements; otherwise
\* eight lanes, lane j summing xs[j], xs[j + 8], ... over the whole groups of
\* eight, the lanes added pairwise, and the remaining elements added in turn
np_add_reduce(xs) ==
    IF Len(xs) < 8 THEN FlSum(xs)
    ELSE LET groups == Len(xs) \div 8
             r == [j \in 1..8 |->
                     FlSumFrom(xs[j], [g \in 1..(groups - 1) |-> xs[8 * g + j]])]
             res == AddPairs(AddPairs(AddPairs(r)))[1]
         IN  FlSumFrom(res, SubSeq(xs, 8 * groups + 1, Len(xs)))

\* np.mean: the sum divided by the number of elements
np_mean(xs) == FlRound(np_add_reduce(xs), Len(xs))

\* x * x, element by element
Squares(xs) == [j \in 1..Len(xs) |-> FlRound(xs[j] * xs[j], 1)]

\* the sum of squared deviations np.std divides by len - ddof before the
\* square root
SumSquaredDeviations(xs) ==
    LET arrmean == np_mean(xs)
    IN  np_add_reduce(Squares([j \in 1..Len(xs) |-> FlRound(xs[j] - arrmean, 1)]))

NaN == [nan |-> TRUE]

\* lines 122-138.  std_excess == 0 exactly when the sum of squared
\* deviations is 0: dividing a positive float by len - 1 and taking its
\* square root give positive floats (no underflow at these magnitudes).
\* The ratio is returned as its mean and the square of its denominator.
sharpe_ratio(excess) ==
    IF Len(excess) < 2 THEN NaN
    ELSE LET mean_excess == np_mean(excess)
             sum_squares == SumSquaredDeviations(excess)
         IN  IF sum_squares = 0 THEN NaN
             ELSE [nan |-> FALSE, mean_excess |-> mean_excess,
                   std_excess_squared |-> Frac(sum_squares, Len(excess) - 1)]

\* lines 105-120: risk_free_rates None (or empty) is modelled as <<>>
ExcessReturns(rets, rates) ==
    IF rates # <<>>
    THEN [j \in 1..Len(rets) |-> FlRound(rets[j] - rates[j], 1)]
    ELSE [j \in 1..Len(rets) |-> FlRound(rets[j] - RISK_FREE_RATE_DEFAULT, 1)]

\* a float result that is a number
Num(v) == [nan |-> FALSE, value |-> v]

\* lines 140-162.  The ratio is returned as its mean and the square of its
\* denominator; np.inf is [inf |-> TRUE].  The mean of the squares of
\* non-zero floats is positive, so the test of line 159 fails.
sortino_ratio(excess) ==
    IF Len(excess) < 2 THEN NaN
    ELSE LET mean_excess == np_mean(excess)
             downside_returns == SelectSeq(excess, LAMBDA x : x < 0)
             squares == Squares(downside_returns)
         IN  IF Len(downside_returns) = 0 THEN [nan |-> FALSE, inf |-> TRUE]
             ELSE [nan |-> FALSE, inf |-> FALSE, mean_excess |-> mean_excess,
                   downside_deviation_squared |-> np_mean(squares)]

\* 1 + self.returns, in units of 0.01
OnePlus(rets) == [j \in 1..Len(rets) |-> FlRound(100 + rets[j], 1)]

\* np.cumprod: c[1] = xs[1], c[i] = c[i - 1] * xs[i]
RECURSIVE np_cumprod(_)
np_cumprod(xs) ==
    IF xs = <<>> THEN <<>>
    ELSE LET before == np_cumprod(SubSeq(xs, 1, Len(xs) - 1))
         IN  IF before = <<>> THEN <<xs[1]>>
             ELSE Append(before, FlRound(before[Len(before)] * xs[Len(xs)], 100))

\* np.maximum.accumulate
np_maximum_accumulate(xs) == [i \in 1..Len(xs) |-> SeqMax(SubSeq(xs, 1, i))]

\* line 186: (cumulative - running_max) / running_max, element by element;
\* 0 / 0 is nan (running_max is 0 only where cumulative is 0 too, the
\* returns being >= -100%)
Drawdown(cumulative, running_max) ==
    [i \in 1..Len(cumulative) |->
        LET diff == FlRound(cumulative[i] - running_max[i], 1)
        IN  IF running_max[i] = 0 THEN NaN
            ELSE IF running_max[i] < 0 THEN Num(FlRound(-(diff * 100), -running_max[i]))
            ELSE Num(FlRound(diff * 100, running_max[i]))]

\* np.argmin of floats: the 0-based position of the first nan if there is
\* one, else of the first minimum
np_argmin(ds) ==
    IF \E i \in 1..Len(ds) : ds[i].nan
    THEN (CHOOSE i \in 1..Len(ds) : ds[i].nan /\ \A j \in 1..(i - 1) : ~ds[j].nan) - 1
    ELSE ArgMin([i \in 1..Len(ds) |-> ds[i].value])

\* mutant: the position of the last maximum
np_argmax_LastOccurrence(xs) ==
    (CHOOSE i \in 1..Len(xs) :
        xs[i] = SeqMax(xs) /\ \A j \in (i + 1)..Len(xs) : xs[j] # SeqMax(xs)) - 1

\* np.argmax of numbers
np_argmax(xs) == ArgMax(xs)

\* lines 194-199: the first index after max_dd_index at which the cumulative
\* value is back at the running maximum of max_dd_index, or nan
RecoveryIndex(cumulative, running_max, max_dd_index) ==
    LET back == {i \in (max_dd_index + 1)..(Len(cumulative) - 1) :
                    cumulative[i + 1] >= running_max[max_dd_index + 1]}
    IN  IF back = {} THEN NaN
        ELSE Num(CHOOSE i \in back : \A j \in back : i <= j)

\* lines 164-207; indices are 0-based as in the source
maximum_drawdown(rets) ==
    IF Len(rets) < 2
    THEN [max_drawdown |-> NaN, peak_index |-> NaN,
          trough_index |-> NaN, recovery_index |-> NaN]
    ELSE LET cumulative == np_cumprod(OnePlus(rets))
             running_max == np_maximum_accumulate(cumulative)
             drawdown == Drawdown(cumulative, running_max)
             max_dd_index == np_argmin(drawdown)
             max_drawdown == drawdown[max_dd_index + 1]
             peak_index == np_argmax(SubSeq(running_max, 1, max_dd_index + 1))
         IN  [max_drawdown |-> IF max_drawdown.nan THEN NaN ELSE Num(Abs(max_drawdown.value)),
              peak_index |-> Num(peak_index),
              trough_index |-> Num(max_dd_index),
              recovery_index |-> RecoveryIndex(cumulative, running_max, max_dd_index)]

\* lines 209-231.  cagr = total_return ** (1 / years) - 1 is returned as
\* total_return and years, with the drawdown it is divided by
calmar_ratio(rets) ==
    IF Len(rets) < 2 THEN NaN
    ELSE LET cumulative == np_cumprod(OnePlus(rets))
             total_return == cumulative[Len(cumulative)]
             max_drawdown == maximum_drawdown(rets).max_drawdown
         IN  IF max_drawdown.nan THEN NaN
             ELSE IF max_drawdown.value = 0 THEN NaN
             ELSE [nan |-> FALSE, total_return |-> total_return, years |-> Len(rets),
                   max_drawdown |-> max_drawdown.value]

\* lines 233-243: np.std(returns, ddof=1), returned as its square
volatility(rets) ==
    IF Len(rets) < 2 THEN NaN
    ELSE [nan |-> FALSE,
          std_squared |-> Frac(SumSquaredDeviations(rets), Len(rets) - 1)]

\* line 255 and line 270
MIN_OBSERVATIONS == 10

\* np.sort
RECURSIVE np_sort(_)
np_sort(xs) ==
    IF xs = <<>> THEN <<>>
    ELSE LET m == SeqMin(xs)
             i == CHOOSE k \in 1..Len(xs) : xs[k] = m
         IN  <<m>> \o np_sort(SubSeq(xs, 1, i - 1) \o SubSeq(xs, i + 1, Len(xs)))

\* np.percentile(xs, q) with the default linear interpolation, q in percent:
\* the virtual index (n - 1) * q / 100 is split into its floor and its
\* fraction gamma (kept exact, in hundredths), and the two neighbours are
\* interpolated as lo + (hi - lo) * gamma, or as hi - (hi - lo) * (1 - gamma)
\* when gamma >= 0.5
np_percentile(xs, q) ==
    LET sorted == np_sort(xs)
        n == Len(xs)
        previous == ((n - 1) * q) \div 100
        gamma == (n - 1) * q - 100 * previous
        lo == sorted[previous + 1]
        hi == sorted[IF previous + 2 <= n THEN previous + 2 ELSE n]
        diff_b_a == FlRound(hi - lo, 1)
    IN  IF 2 * gamma >= 100
        THEN FlRound(hi - FlRound(diff_b_a * (100 - gamma), 100), 1)
        ELSE FlRound(lo + FlRound(diff_b_a * gamma, 100), 1)

\* lines 245-258; confidence_level is in units of 0.01, so it is the
\* percentile confidence_level * 100 asks for
var_historical(rets, confidence_level) ==
    IF Len(rets) < MIN_OBSERVATIONS THEN NaN
    ELSE Num(-np_percentile(rets, confidence_level))

\* lines 260-279
cvar_historical(rets, confidence_level) ==
    IF Len(rets) < MIN_OBSERVATIONS THEN NaN
    ELSE LET var_threshold == -(var_historical(rets, confidence_level).value)
             tail_losses == SelectSeq(rets, LAMBDA x : x <= var_threshold)
         IN  IF Len(tail_losses) = 0 THEN NaN
             ELSE Num(-np_mean(tail_losses))

\* lines 281-301, on the attributes of one calculator
all_metrics(rets, excess) ==
    [sharpe_ratio |-> sharpe_ratio(excess),
     sortino_ratio |-> sortino_ratio(excess),
     calmar_ratio |-> calmar_ratio(rets),
     volatility |-> volatility(rets),
     max_drawdown |-> maximum_drawdown(rets).max_drawdown,
     var_95 |-> var_historical(rets, 5),
     cvar_95 |-> cvar_historical(rets, 5),
     var_99 |-> var_historical(rets, 1),
     cvar_99 |-> cvar_historical(rets, 1)]

\* mutant: every window is given the first window_size rates
WindowRiskFreeRates_FromStart(rates, i, window_size) ==
    IF rates # <<>> THEN Slice(rates, 0, window_size) ELSE <<>>

\* lines 327-330: risk_free_rates[i:i + window_size] when a non-empty list
\* is given, else None
WindowRiskFreeRates(rates, i, window_size) ==
    IF rates # <<>> THEN Slice(rates, i, i + window_size) ELSE <<>>

\* lines 303-340
calculate_rolling_risk_metrics(rets, window_size, rates) ==
    IF Len(rets) < window_size THEN <<>>
    ELSE [k \in 1..(Len(rets) - window_size + 1) |->
            LET i == k - 1
                window_returns == Slice(rets, i, i + window_size)
                window_rf_rates == WindowRiskFreeRates(rates, i, window_size)
                metrics == all_metrics(window_returns,
                                       ExcessReturns(window_returns, window_rf_rates))
            IN  metrics @@ [window_start_index |-> i,
                            window_end_index |-> i + window_size - 1]]

\* returns in units of 0.01; -100 is a total loss
RiskReturnValues == {16, -3, -100}
RiskFreeValues == {1, 2}

RECURSIVE SeqsOfLen(_, _)
SeqsOfLen(values, n) ==
    IF n = 0 THEN {<<>>}
    ELSE {Append(xs, v) : xs \in SeqsOfLen(values, n - 1), v \in values}

\* vectors long enough for the historical VaR: k copies of one value
\* followed by copies of another
MaxLongObservations == 11
LongReturnValues == {-24, 5, 30}
LongReturns ==
    {[j \in 1..n |-> IF j <= k THEN a ELSE b] :
        n \in MIN_OBSERVATIONS..MaxLongObservations, k \in 0..MaxLongObservations,
        a \in LongReturnValues, b \in LongReturnValues}

\* confidence_level 0.01 and 0.05, in units of 0.01
ConfidenceLevels == {1, 5}

\* window sizes of the rolling variant
WindowSizeValues == {2, 3, MIN_OBSERVATIONS}

\* the vectors of n risk-free rates: one rate up to some year, another after
RiskFreeVectors(n) ==
    {[j \in 1..n |-> IF j <= k THEN a ELSE b] :
        k \in 0..n, a \in RiskFreeValues, b \in RiskFreeValues}

\* a vector of risk-free rates, when given, has one rate per return
InitRisk ==
    /\ years = <<FirstYear>>
    /\ returns = <<0>>
    /\ calculation_warnings = <<>>
    /\ validation_errors = <<>>
    /\ call = NoCall
    /\ ret = NoCall
    /\ NoInstances
    /\ \/ \E n \in 0..MaxObservations :
             /\ risk_returns \in SeqsOfLen(RiskReturnValues, n)
             /\ risk_free_rates \in {<<>>} \cup RiskFreeVectors(n)
       \/ /\ risk_returns \in LongReturns
          /\ risk_free_rates = <<>>
    /\ excess_returns = ExcessReturns(risk_returns, risk_free_rates)

SharpeRatio ==
    /\ call = NoCall
    /\ call' = [op |-> "sharpe_ratio"]
    /\ ret' = Returned(sharpe_ratio(excess_returns))
    /\ UNCHANGED <<years, returns, calculation_warnings, validation_errors,
                   instance_vars, risk_vars>>

MaximumDrawdown ==
    /\ call = NoCall
    /\ call' = [op |-> "maximum_drawdown"]
    /\ ret' = Returned(maximum_drawdown(risk_returns))
    /\ UNCHANGED <<years, returns, calculation_warnings, validation_errors,
                   instance_vars, risk_vars>>

VarHistorical ==
    /\ call = NoCall
    /\ \E confidence_level \in ConfidenceLevels :
        /\ call' = [op |-> "var_historical", confidence_level |-> confidence_level]
        /\ ret' = Returned(var_historical(risk_returns, confidence_level))
    /\ UNCHANGED <<years, returns, calculation_warnings, validation_errors,
                   instance_vars, risk_vars>>

CvarHistorical ==
    /\ call = NoCall
    /\ \E confidence_level \in ConfidenceLevels :
        /\ call' = [op |-> "cvar_historical", confidence_level |-> confidence_level]
        /\ ret' = Returned(cvar_historical(risk_returns, confidence_level))
    /\ UNCHANGED <<years, returns, calculation_warnings, validation_errors,
                   instance_vars, risk_vars>>

AllMetrics ==
    /\ call = NoCall
    /\ call' = [op |-> "all_metrics"]
    /\ ret' = Returned(all_metrics(risk_returns, excess_returns))
    /\ UNCHANGED <<years, returns, calculation_warnings, validation_errors,
                   instance_vars, risk_vars>>

\* the module-level function, called with the lists the calculator was built
\* from; it builds its own calculators and leaves this one alone
CalculateRollingRiskMetrics ==
    /\ call = NoCall
    /\ \E window_size \in WindowSizeValues :
        /\ call' = [op |-> "calculate_rolling_risk_metrics",
                    returns |-> risk_returns, window_size |-> window_size,
                    risk_free_rates |-> risk_free_rates]
        /\ ret' = Returned(calculate_rolling_risk_metrics(
                              risk_returns, window_size, risk_free_rates))
    /\ UNCHANGED <<years, returns, calculation_warnings, validation_errors,
                   instance_vars, risk_vars>>

RiskReturn ==
    /\ call # NoCall
    /\ call' = NoCall
    /\ ret' = NoCall
    /\ UNCHANGED <<years, returns, calculation_warnings, validation_errors,
                   instance_vars, risk_vars>>

NextRisk ==
    \/ SharpeRatio
    \/ MaximumDrawdown
    \/ VarHistorical
    \/ CvarHistorical
    \/ AllMetrics
    \/ CalculateRollingRiskMetrics
    \/ RiskReturn

SpecRisk == InitRisk /\ [][NextRisk]_vars

----------------------------------------------------------------------------
(* DataProcessor.compute_gips_compliance_analysis (data_processor.py): one  *)
(* processor holds one GIPSCalculator (line 37) for all its analyses.       *)
(* calculation_warnings and validation_errors are that calculator's lists.  *)

\* gips_compliance.py line 154: max_iterations = 100
MAX_ITERATIONS_DEFAULT == 100

\* data_processor.py lines 641-651: the valuations of a prepared portfolio
\* are in date order and start from the positive opening value
PreparedValuations ==
    {vs \in ValuationInputs(3) :
        /\ Len(vs) >= 2
        /\ vs[1].market_value > 0
        /\ \A i \in 1..(Len(vs) - 1) : vs[i].date < vs[i + 1].date}

\* lines 653-659: one contribution of 50000 in the middle of the period when
\* the period has more than two years (the opening valuation is not a year)
PreparedCashFlows(valuations) ==
    IF Len(valuations) - 1 > 2
    THEN <<[date |-> valuations[2].date, amount |-> 50000]>>
    ELSE <<>>

\* the outcomes of the Newton loop of one analysis: it ends within its first
\* two iterations, or every iteration is a step
AnalysisOracles ==
    {[k \in 1..MAX_ITERATIONS_DEFAULT |-> "step"]} \cup
    {Append(Steps(k), o) : k \in 0..1, o \in IterationOutcomes \ {"step"}}

\* period_end - period_start in days for datetime(start_year, 1, 1) and
\* datetime(end_year, 12, 31): a single year that is not / is a leap year
AnalysisPeriods == {[period_start |-> 1, period_end |-> 365],
                    [period_start |-> 1, period_end |-> 366]}

\* mutant: the warnings of earlier analyses are kept
clear_warnings_Keeps(warnings) == warnings

\* gips_compliance.py lines 421-424, on either list
clear_warnings(warnings) == <<>>

\* data_processor.py lines 705-713: the money-weighted return, or None and
\* one more warning when the calculation raises
MwrOrNone(mwr) ==
    IF mwr.outcome.kind = "raised"
    THEN [value |-> [none |-> TRUE],
          warnings |-> mwr.warnings
                          \o <<"MWR calculation failed: " \o mwr.outcome.error>>]
    ELSE [value |-> mwr.outcome.value, warnings |-> mwr.warnings]

\* data_processor.py lines 716-727: the result as constructed
NewGipsResult(twr, mwr, period, valuations) ==
    [time_weighted_return |-> twr,
     money_weighted_return |-> mwr,
     composite_return |-> twr,
     calculation_method |-> "time_weighted",
     period_start |-> period.period_start,
     period_end |-> period.period_end,
     number_of_portfolios |-> 1,
     total_assets |-> valuations[Len(valuations)].market_value,
     compliance_level |-> "partial_compliance",
     validation_notes |-> <<>>]

\* data_processor.py lines 691-736 on the calculator's warnings: the final
\* result and the warnings the calculator holds afterwards
calculate_gips_returns(warnings, valuations, cash_flows, period, oracle) ==
    LET twr == calculate_time_weighted_return(valuations, cash_flows)
        after_twr == AppendWarnings(warnings, twr.warnings)
        mwr == MwrOrNone(calculate_money_weighted_return(
                    valuations, cash_flows, MAX_ITERATIONS_DEFAULT, TOLERANCE_DEFAULT, oracle))
        after_mwr == AppendWarnings(after_twr, mwr.warnings)
        result == NewGipsResult(twr.outcome.value, mwr.value, period, valuations)
        validation == validate_gips_compliance(result, after_mwr).value
    IN  [result |-> [result EXCEPT !.compliance_level = validation.compliance_level,
                                   !.validation_notes = validation.validation_notes],
         warnings |-> after_mwr]

InitProcessor ==
    /\ years = <<FirstYear>>
    /\ returns = <<0>>
    /\ calculation_warnings = <<>>
    /\ validation_errors = <<>>
    /\ call = NoCall
    /\ ret = NoCall
    /\ NoInstances
    /\ NoRiskCalculator

\* data_processor.py lines 582-629 with data loaded: clear the calculator,
\* prepare the data, calculate and validate.  The attribution analysis, the
\* benchmark validation and the report (lines 594-609) read the result and
\* use other components; they leave the calculator and the result alone.
ComputeGipsComplianceAnalysis ==
    /\ call = NoCall
    /\ \E valuations \in PreparedValuations, period \in AnalysisPeriods,
          oracle \in AnalysisOracles :
        LET cash_flows == PreparedCashFlows(valuations)
            r == calculate_gips_returns(clear_warnings(calculation_warnings),
                                        valuations, cash_flows, period, oracle)
        IN  /\ call' = [op |-> "compute_gips_compliance_analysis",
                        valuations |-> valuations, cash_flows |-> cash_flows,
                        period |-> period, oracle |-> oracle,
                        warnings_before |-> calculation_warnings]
            /\ ret' = Returned(r.result)
            /\ calculation_warnings' = r.warnings
            /\ validation_errors' = clear_warnings(validation_errors)
    /\ UNCHANGED <<years, returns, instance_vars, risk_vars>>

\* the caller takes the dictionary; the warnings stay on the calculator
ProcessorReturn ==
    /\ call # NoCall
    /\ call' = NoCall
    /\ ret' = NoCall
    /\ UNCHANGED <<years, returns, calculation_warnings, validation_errors,
                   instance_vars, risk_vars>>

NextProcessor ==
    \/ ComputeGipsComplianceAnalysis
    \/ ProcessorReturn

SpecProcessor == InitProcessor /\ [][NextProcessor]_vars

----------------------------------------------------------------------------
(* Reference notions for the analyzer claims, stated on the series itself   *)
(* and independent of the operators above.                                  *)

\* 0-based position of start year sy in the analyzer's series
YearIdx(sy) == (CHOOSE i \in 1..Len(years) : years[i] = sy) - 1
YearPresent(sy) == \E i \in 1..Len(years) : years[i] = sy

\* product of (RDen + k) over the n returns at 0-based positions i .. i+n-1
RECURSIVE GrowthNum(_, _)
GrowthNum(i, n) == IF n = 0 THEN 1 ELSE (RDen + returns[i + n]) * GrowthNum(i, n - 1)

\* the anchors of the n-year windows starting at or after sy
Anchors(sy, n) == YearIdx(sy)..(Len(years) - n)

\* the window at anchor i loses money: product of (1 + r) below 1
WindowLoses(i, n) == GrowthNum(i, n) < Pow(RDen, n)

\* every n-year window from sy has cagr >= 0
AllNoLoss(sy, n) == \A i \in Anchors(sy, n) : ~WindowLoses(i, n)

\* the cagr c (units of 1 / Scale) of the window at anchor i, by the identity
\* (1 + c)^n <= product of (1 + r) < (1 + c + 1/Scale)^n
CagrRange == (-Scale)..((RDen + 2) * RootK - Scale)
RefCagr(i, n) ==
    LET prod == GrowthNum(i, n) * Pow(RootK, n)
    IN  CHOOSE c \in CagrRange :
            /\ Pow(Scale + c, n) <= prod
            /\ (c + 1) \in CagrRange => Pow(Scale + c + 1, n) > prod

RefCagrs(sy, n) == {RefCagr(i, n) : i \in Anchors(sy, n)}
RefMinCagr(sy, n) ==
    LET cs == RefCagrs(sy, n) IN CHOOSE c \in cs : \A d \in cs : c <= d
RefMaxCagr(sy, n) ==
    LET cs == RefCagrs(sy, n) IN CHOOSE c \in cs : \A d \in cs : c >= d

HasNote(rec) == "note" \in DOMAIN rec

CalledNoLoss == call.op = "find_min_no_loss_horizon"
CalledSpread == call.op = "find_min_spread_horizon"
CalledRolling == call.op = "compute_rolling_cagr"
CalledAll == call.op = "compute_all_rolling_cagrs"

----------------------------------------------------------------------------
(* C1: when find_min_no_loss_horizon returns a record without a note, every *)
(* window of min_holding_years years from start_year has cagr >= 0, and for *)
(* every smaller n >= 1 some n-year window from start_year has cagr < 0.    *)
C1_NoLossMinimal ==
    (CalledNoLoss /\ ret.kind = "returned" /\ ~HasNote(ret.value)) =>
        LET n == ret.value.min_holding_years
            sy == call.start_year
        IN  /\ n \in 1..(Len(years) - YearIdx(sy))
            /\ AllNoLoss(sy, n)
            /\ \A m \in 1..(n - 1) : ~AllNoLoss(sy, m)

\* a found horizon of at least 2 years with several windows of that length
C1_Witness ==
    /\ CalledNoLoss /\ ret.kind = "returned" /\ ~HasNote(ret.value)
    /\ ret.value.min_holding_years >= 2
    /\ ret.value.num_windows_checked >= 2

(* C2 as stated: for every threshold the returned record satisfies          *)
(* spread <= threshold, spread being max - min cagr over the windows of the *)
(* returned length.                                                         *)
C2_SpreadWithinThreshold ==
    (CalledSpread /\ ret.kind = "returned") =>
        LET n == ret.value.min_holding_years
            sy == call.start_year
        IN  /\ ret.value.spread = RefMaxCagr(sy, n) - RefMinCagr(sy, n)
            /\ ret.value.spread <= call.threshold

(* C2 amended: the record's spread is max - min cagr over the windows of    *)
(* the returned length; a record without a note satisfies                   *)
(* spread <= threshold, and every threshold >= 0 yields such a record; a    *)
(* negative threshold yields the "Threshold not met" record, spread 0.      *)
C2_SpreadWithinThresholdUnlessFallback ==
    (CalledSpread /\ ret.kind = "returned") =>
        LET n == ret.value.min_holding_years
            sy == call.start_year
        IN  /\ ret.value.spread = RefMaxCagr(sy, n) - RefMinCagr(sy, n)
            /\ ~HasNote(ret.value) => ret.value.spread <= call.threshold
            /\ call.threshold >= 0 => ~HasNote(ret.value)
            /\ call.threshold < 0 =>
                  /\ HasNote(ret.value)
                  /\ ret.value.spread = 0
                  /\ n = Len(years) - YearIdx(sy)

\* a found spread horizon of at least 2 years under a non-negative threshold
C2_Witness ==
    /\ CalledSpread /\ ret.kind = "returned" /\ ~HasNote(ret.value)
    /\ call.threshold >= 0
    /\ ret.value.min_holding_years >= 2
    /\ ret.value.min_holding_years < Len(years) - YearIdx(call.start_year)
    /\ ret.value.spread > 0

(* C3: compute_rolling_cagr returns an empty list, raising nothing, when    *)
(* start_year is not in the series or index + window_size exceeds the       *)
(* length; compute_all_rolling_cagrs then maps each such default window     *)
(* length to an empty list, and has an entry for every default length.      *)
Infeasible(sy, w) == ~YearPresent(sy) \/ YearIdx(sy) + w > Len(years)

C3_InfeasibleIsEmpty ==
    /\ CalledRolling =>
          /\ ret.kind = "returned"
          /\ Infeasible(call.start_year, call.window_size) => ret.value = <<>>
    /\ CalledAll =>
          /\ ret.kind = "returned"
          /\ DOMAIN ret.value = {5, 10, 15, 20, 30}
          /\ \A w \in DOMAIN ret.value :
                Infeasible(call.start_year, w) => ret.value[w] = <<>>

\* the default lengths computed for a present year of a series that is too
\* short for them
C3_Witness ==
    /\ CalledAll /\ ret.kind = "returned"
    /\ YearPresent(call.start_year)
    /\ Len(years) >= 3
    /\ Infeasible(call.start_year, 5) /\ ret.value[5] = <<>>

(* C4: find_min_no_loss_horizon and find_min_spread_horizon called with a   *)
(* start_year absent from the series return a result and raise no error.    *)
C4_AbsentYearNoError ==
    ((CalledNoLoss \/ CalledSpread) /\ ~YearPresent(call.start_year)) =>
        ret.kind = "returned"

(* C5: find_min_no_loss_horizon returns a record with a note exactly when   *)
(* no n in 1..max_feasible has all n-year windows at cagr >= 0; that record *)
(* has min_holding_years = max_feasible and best/worst/average statistics   *)
(* of the max_feasible-year windows.                                        *)
C5_NoteIffNoHorizon ==
    (CalledNoLoss /\ ret.kind = "returned") =>
        LET sy == call.start_year
            max_feasible == Len(years) - YearIdx(sy)
            rec == ret.value
        IN  /\ HasNote(rec) <=> (\A n \in 1..max_feasible : ~AllNoLoss(sy, n))
            /\ HasNote(rec) =>
                  /\ rec.note = "Condition not met - max feasible horizon used"
                  /\ rec.min_holding_years = max_feasible
                  /\ rec.worst_cagr = RefMinCagr(sy, max_feasible)
                  /\ rec.best_cagr = RefMaxCagr(sy, max_feasible)
                  /\ rec.average_cagr = RefCagr(YearIdx(sy), max_feasible)
                  /\ rec.num_windows_checked = Len(years) - max_feasible - YearIdx(sy) + 1

\* the fallback record of a search over at least 3 lengths
C5_Witness ==
    /\ CalledNoLoss /\ ret.kind = "returned" /\ HasNote(ret.value)
    /\ ret.value.min_holding_years >= 3

(* C6: every record returned by the two horizon searches has the fields     *)
(* min_holding_years, worst_window, best_window, worst_cagr, best_cagr and  *)
(* num_windows_checked, and worst_window / best_window label the window     *)
(* that attains the minimum / maximum cagr.                                 *)
RequiredFields ==
    {"min_holding_years", "worst_window", "best_window", "worst_cagr", "best_cagr",
     "num_windows_checked"}

\* "{startYear}-{endYear}" of the n-year window at anchor i
WindowLabel(i, n) == ToString(years[i + 1]) \o "-" \o ToString(years[i + n])

C6_RecordFields ==
    ((CalledNoLoss \/ CalledSpread) /\ ret.kind = "returned") =>
        LET rec == ret.value
            n == rec.min_holding_years
            sy == call.start_year
        IN  /\ RequiredFields \subseteq DOMAIN rec
            /\ \E i \in Anchors(sy, n) :
                  rec.worst_window = WindowLabel(i, n) /\ RefCagr(i, n) = RefMinCagr(sy, n)
            /\ \E i \in Anchors(sy, n) :
                  rec.best_window = WindowLabel(i, n) /\ RefCagr(i, n) = RefMaxCagr(sy, n)

ConsecutiveYears == \A i \in 1..(Len(years) - 1) : years[i + 1] = years[i] + 1

C8_OnePairPerAnchor ==
    (CalledRolling /\ ret.kind = "returned"
        /\ ~Infeasible(call.start_year, call.window_size)) =>
        LET w == call.window_size
            s == YearIdx(call.start_year)
            L == Len(years)
        IN  /\ Len(ret.value) = L - w - s + 1
            /\ \A k \in 0..(L - w - s) : ret.value[k + 1][1] = years[(s + k + w - 1) + 1]
            /\ \A k \in 1..(L - w - s) : ret.value[k][1] < ret.value[k + 1][1]
            /\ ConsecutiveYears => ret.value[1][1] = call.start_year + w - 1

\* a gapped series, a start year after the first, several windows
C8_Witness ==
    /\ CalledRolling /\ ret.kind = "returned"
    /\ ~ConsecutiveYears
    /\ YearPresent(call.start_year) /\ YearIdx(call.start_year) >= 1
    /\ call.window_size >= 2
    /\ Len(ret.value) >= 2

----------------------------------------------------------------------------
\* the length of the longest window from start year sy
MaxFeasible(sy) == Len(years) - YearIdx(sy)

\* the spread of the n-year windows from sy, from the series itself
RefSpread(sy, n) == RefMaxCagr(sy, n) - RefMinCagr(sy, n)

\* the keys of the records a search returns when a length passes its test
NoLossKeys ==
    {"start_year_series", "min_holding_years", "worst_window", "worst_cagr",
     "best_window", "best_cagr", "average_cagr", "num_windows_checked"}
SpreadKeys ==
    {"start_year_series", "threshold", "min_holding_years", "best_window",
     "best_cagr", "worst_window", "worst_cagr", "spread"}

(* C26: both searches return the first length n = 1, 2, ... that passes the *)
(* per-n test, whatever larger lengths do: when some length passes, the     *)
(* record names the least passing length and has only the fields of a found *)
(* record (no note, nothing about larger lengths), also when a larger       *)
(* feasible length has a losing window or a spread above the threshold.     *)
C26_FirstPassingLength ==
    /\ (CalledNoLoss /\ YearPresent(call.start_year)) =>
          \A n \in 1..MaxFeasible(call.start_year) :
              (AllNoLoss(call.start_year, n)
                 /\ \A m \in 1..(n - 1) : ~AllNoLoss(call.start_year, m)) =>
                  /\ ret.kind = "returned"
                  /\ ret.value.min_holding_years = n
                  /\ DOMAIN ret.value = NoLossKeys
    /\ (CalledSpread /\ YearPresent(call.start_year)) =>
          \A n \in 1..MaxFeasible(call.start_year) :
              (RefSpread(call.start_year, n) <= call.threshold
                 /\ \A m \in 1..(n - 1) : RefSpread(call.start_year, m) > call.threshold) =>
                  /\ ret.kind = "returned"
                  /\ ret.value.min_holding_years = n
                  /\ DOMAIN ret.value = SpreadKeys

\* a series on which the no-loss search returns a length n without a note
\* although a longer window loses, and on which the spread search for
\* threshold 0 returns a length although a larger length has a positive spread
C26_Witness ==
    /\ CalledNoLoss /\ ret.kind = "returned" /\ ~HasNote(ret.value)
    /\ \E m \in (ret.value.min_holding_years + 1)..MaxFeasible(call.start_year) :
          ~AllNoLoss(call.start_year, m)
    /\ LET spread_ret == find_min_spread_horizon(years, returns, call.start_year, 0)
       IN  /\ spread_ret.kind = "returned"
           /\ ~HasNote(spread_ret.value)
           /\ \E m \in (spread_ret.value.min_holding_years + 1)..MaxFeasible(call.start_year) :
                 RefSpread(call.start_year, m) > 0

(* C27: for a start_year in the series and a threshold >= 0,                *)
(* find_min_spread_horizon does not take the fallback path: the record has  *)
(* no note and min_holding_years <= max_feasible (the single window at      *)
(* max_feasible has spread 0); a 'Threshold not met' record comes from a    *)
(* negative threshold only.                                                 *)
C27_NoFallbackForNonNegativeThreshold ==
    (CalledSpread /\ YearPresent(call.start_year)) =>
        /\ ret.kind = "returned"
        /\ Cardinality(Anchors(call.start_year, MaxFeasible(call.start_year))) = 1
        /\ RefSpread(call.start_year, MaxFeasible(call.start_year)) = 0
        /\ call.threshold >= 0 =>
              /\ ~HasNote(ret.value)
              /\ ret.value.min_holding_years \in 1..MaxFeasible(call.start_year)
        /\ HasNote(ret.value) =>
              /\ ret.value.note = "Threshold not met - max feasible horizon used"
              /\ call.threshold < 0

\* threshold 0 is met only at max_feasible, by the single window of that length
C27_Witness ==
    /\ CalledSpread /\ YearPresent(call.start_year)
    /\ call.threshold = 0
    /\ ret.kind = "returned"
    /\ ~HasNote(ret.value)
    /\ ret.value.min_holding_years = MaxFeasible(call.start_year)
    /\ ret.value.min_holding_years >= 3

(* C28: for a start_year in the series neither search returns the 'No       *)
(* feasible windows' record; compute_rolling_cagr gives                     *)
(* max_feasible - n + 1 windows for every n in 1..max_feasible; and the     *)
(* no-loss fallback record has num_windows_checked = 1, best_window equal   *)
(* to worst_window and worst_cagr < 0.                                      *)
C28_NeverNoFeasibleWindows ==
    /\ ((CalledNoLoss \/ CalledSpread) /\ YearPresent(call.start_year)) =>
          /\ ret.kind = "returned"
          /\ ~(HasNote(ret.value) /\ ret.value.note = "No feasible windows")
    /\ (CalledNoLoss /\ YearPresent(call.start_year) /\ HasNote(ret.value)) =>
          /\ ret.value.num_windows_checked = 1
          /\ ret.value.best_window = ret.value.worst_window
          /\ ret.value.worst_cagr < 0
          /\ ret.value.min_holding_years = MaxFeasible(call.start_year)
    /\ (CalledRolling /\ YearPresent(call.start_year)
          /\ call.window_size \in 1..MaxFeasible(call.start_year)) =>
          Len(ret.value) = MaxFeasible(call.start_year) - call.window_size + 1

\* a no-loss fallback record over a window of several years
C28_Witness ==
    /\ CalledNoLoss /\ YearPresent(call.start_year)
    /\ ret.kind = "returned"
    /\ HasNote(ret.value)
    /\ ret.value.min_holding_years >= 3
    /\ ret.value.num_windows_checked = 1

----------------------------------------------------------------------------
(* Reference notions for the calculator claims *)

CalledTwr == call.op = "calculate_time_weighted_return"
CalledMwr == call.op = "calculate_money_weighted_return"

\* the valuation of the call with the earliest / latest date
EarliestValuation ==
    LET vs == call.valuations
    IN  vs[CHOOSE i \in 1..Len(vs) : \A j \in 1..Len(vs) : vs[i].date <= vs[j].date]
LatestValuation ==
    LET vs == call.valuations
    IN  vs[CHOOSE i \in 1..Len(vs) : \A j \in 1..Len(vs) : vs[i].date >= vs[j].date]

PassedInDateOrder ==
    \A i \in 1..(Len(call.valuations) - 1) :
        call.valuations[i].date < call.valuations[i + 1].date

(* C9: calculate_time_weighted_return and calculate_money_weighted_return   *)
(* called with fewer than two valuations fail with an input error and leave *)
(* calculation_warnings unchanged.                                          *)
C9_TooFewValuationsRaise ==
    ((CalledTwr \/ CalledMwr) /\ Len(call.valuations) < 2) =>
        /\ ret.kind = "raised"
        /\ ret.error = "ValueError"
        /\ calculation_warnings = call.warnings_before

\* a single valuation of value 0 on an instance that already holds a warning
C9_Witness ==
    /\ CalledTwr
    /\ Len(call.valuations) = 1
    /\ call.valuations[1].market_value = 0
    /\ call.warnings_before # <<>>
    /\ ret.kind = "raised"

(* C10: with no cash flows and every valuation but the latest having        *)
(* market_value > 0, calculate_time_weighted_return returns                 *)
(* last.value / first.value - 1 (first and last by date) in whatever order  *)
(* the valuations were passed, and records no warning.                      *)
C10_NoFlowsChainLink ==
    (/\ CalledTwr
     /\ Len(call.valuations) >= 2
     /\ call.cash_flows = <<>>
     /\ \A i \in 1..Len(call.valuations) :
           call.valuations[i] # LatestValuation => call.valuations[i].market_value > 0) =>
        /\ ret.kind = "returned"
        /\ ret.value.num * EarliestValuation.market_value =
              (LatestValuation.market_value - EarliestValuation.market_value) * ret.value.den
        /\ ret.value.den > 0
        /\ calculation_warnings = call.warnings_before

\* three valuations passed out of date order, with a non-zero return
C10_Witness ==
    /\ CalledTwr
    /\ Len(call.valuations) = 3
    /\ call.cash_flows = <<>>
    /\ \A i \in 1..3 :
          call.valuations[i] # LatestValuation => call.valuations[i].market_value > 0
    /\ ~PassedInDateOrder
    /\ ret.kind = "returned"
    /\ ret.value.num # 0

----------------------------------------------------------------------------
(* Reference notions for the Modified Dietz, composite and validation claims *)

CalledDietz == call.op = "calculate_modified_dietz_return"
CalledComposite == call.op = "calculate_composite_return"
CalledValidate == call.op = "validate_gips_compliance"

\* the warnings the call has appended to the instance's list
IsPrefix(xs, ys) == Len(xs) <= Len(ys) /\ SubSeq(ys, 1, Len(xs)) = xs
AddedWarnings ==
    SubSeq(calculation_warnings, Len(call.warnings_before) + 1, Len(calculation_warnings))

\* the cash flows of a Modified Dietz call dated within the period, ends included
FlowsWithinPeriod ==
    SelectSeq(call.cash_flows,
              LAMBDA cf : call.period_start <= cf.date /\ cf.date <= call.period_end)

----------------------------------------------------------------------------
\* the first iteration of a money-weighted call that does not update the
\* rate (max_iterations when every iteration updates it), and its outcome
MwrOutcomeAt(k) ==
    IterationOutcome(AllFlows(call.valuations, call.cash_flows),
                     TOLERANCE_DEFAULT, call.oracle, k)
MwrStop ==
    CHOOSE k \in 0..call.max_iterations :
        /\ \A j \in 0..(k - 1) : MwrOutcomeAt(j) = "step"
        /\ k = call.max_iterations \/ MwrOutcomeAt(k) # "step"

(* C12: calculate_money_weighted_return records only the "unstable" warning  *)
(* when it stops early on a near-zero derivative, only the non-convergence   *)
(* warning when all max_iterations iterations ran without |NPV| < tolerance, *)
(* and no warning when it converges; it always returns the last rate.        *)
C12_WarningMatchesStop ==
    (CalledMwr /\ Len(call.valuations) >= 2) =>
        /\ ret = Returned(Rate(MwrStop))
        /\ AddedWarnings =
              IF MwrStop = call.max_iterations
              THEN <<NotConvergedWarning(call.max_iterations)>>
              ELSE IF MwrOutcomeAt(MwrStop) = "flat" THEN <<UnstableWarning>>
              ELSE <<>>

----------------------------------------------------------------------------
CompositeSum(f(_)) ==
    SeqSum([j \in 1..Len(call.portfolio_returns) |-> f(call.portfolio_returns[j])])

(* C13: calculate_composite_return fails with an input error for every       *)
(* method other than "asset_weighted" and "equal_weighted", whatever the     *)
(* list of (return, weight) pairs; for "asset_weighted" it returns           *)
(* sum(return * weight) / sum(weight) and for "equal_weighted" the mean of   *)
(* the returns.                                                              *)
C13_CompositeMethods ==
    CalledComposite =>
        LET sum_w == CompositeSum(LAMBDA p : p[2])
            sum_rw == CompositeSum(LAMBDA p : p[1] * p[2])
            sum_r == CompositeSum(LAMBDA p : p[1])
        IN  /\ call.method \notin {"asset_weighted", "equal_weighted"} =>
                  ret = Raised("ValueError")
            /\ call.method = "asset_weighted" =>
                  (ret.kind = "returned" /\ ret.value.num * sum_w = sum_rw * ret.value.den)
            /\ call.method = "equal_weighted" =>
                  /\ ret.kind = "returned"
                  /\ ret.value.num * Len(call.portfolio_returns) = sum_r * ret.value.den

----------------------------------------------------------------------------
\* the four checks of validate_gips_compliance, on the result passed and the
\* warnings the instance holds
MethodCheckFails ==
    call.calculation_result.calculation_method \in {"money_weighted", "modified_dietz"}
PortfolioCheckFails == call.calculation_result.number_of_portfolios <= 4
WarningCheckFails == calculation_warnings # <<>>
PeriodCheckFails ==
    call.calculation_result.period_end - call.calculation_result.period_start <= 364
FailedChecks ==
    Cardinality({c \in {"method", "portfolios", "warnings", "period"} :
                    \/ c = "method" /\ MethodCheckFails
                    \/ c = "portfolios" /\ PortfolioCheckFails
                    \/ c = "warnings" /\ WarningCheckFails
                    \/ c = "period" /\ PeriodCheckFails})

(* C14: validate_gips_compliance returns FULL_COMPLIANCE when no check fails *)
(* and no warning is accumulated, PARTIAL_COMPLIANCE when one or two checks  *)
(* fail, and NON_COMPLIANT when more than two of the four checks fail.       *)
C14_LevelCountsFailedChecks ==
    CalledValidate =>
        ret.value.compliance_level =
            IF FailedChecks = 0 THEN "full_compliance"
            ELSE IF FailedChecks <= 2 THEN "partial_compliance"
            ELSE "non_compliant"

(* C15: the notes of validate_gips_compliance are, in this order: the method *)
(* note if the method check fails, the portfolio-count note if that check    *)
(* fails, one note per warning in calculation_warnings in recording order,   *)
(* and the period note if the period check fails; nothing else.              *)
C15_NotesInCheckOrder ==
    CalledValidate =>
        LET notes == ret.value.validation_notes
            m == IF MethodCheckFails THEN 1 ELSE 0
            p == IF PortfolioCheckFails THEN 1 ELSE 0
            w == Len(calculation_warnings)
            d == IF PeriodCheckFails THEN 1 ELSE 0
        IN  /\ Len(notes) = m + p + w + d
            /\ MethodCheckFails => notes[1] = MethodNote
            /\ PortfolioCheckFails => notes[m + 1] = PortfoliosNote
            /\ \A k \in 1..w :
                  notes[m + p + k] = "Calculation warning: " \o calculation_warnings[k]
            /\ PeriodCheckFails => notes[m + p + w + 1] = PeriodNote

\* all four checks fail on an instance holding two warnings
C15_Witness ==
    /\ CalledValidate
    /\ MethodCheckFails /\ PortfolioCheckFails /\ PeriodCheckFails
    /\ Len(calculation_warnings) = 2
    /\ calculation_warnings[1] # calculation_warnings[2]
    /\ Len(ret.value.validation_notes) = 5

(* C16: calculation_warnings is append-only: every step other than           *)
(* clear_warnings keeps the recorded warnings as a prefix, clear_warnings    *)
(* empties calculation_warnings and validation_errors, and a validation on   *)
(* an instance still holding warnings of an earlier analysis reports each of *)
(* them, in order, and is not FULL_COMPLIANCE.                               *)
C16_WarningsAppendOnly ==
    [][/\ (call = NoCall /\ call' = NoCall) =>
              (calculation_warnings' = <<>> /\ validation_errors' = <<>>)
       /\ ~(call = NoCall /\ call' = NoCall) =>
              IsPrefix(calculation_warnings, calculation_warnings')
       /\ call'.op = "validate_gips_compliance" =>
              /\ calculation_warnings' = calculation_warnings
              /\ SelectSeq(ret'.value.validation_notes,
                           LAMBDA n : n \notin {MethodNote, PortfoliosNote, PeriodNote})
                    = [k \in 1..Len(calculation_warnings) |->
                          "Calculation warning: " \o calculation_warnings[k]]
              /\ calculation_warnings # <<>> =>
                    ret'.value.compliance_level # "full_compliance"]_vars

\* a validation whose own checks all pass, on an instance that still holds
\* a warning: the level is PARTIAL_COMPLIANCE because of that warning alone
C16_Witness ==
    /\ CalledValidate
    /\ ~MethodCheckFails /\ ~PortfolioCheckFails /\ ~PeriodCheckFails
    /\ calculation_warnings # <<>>
    /\ ret.value.compliance_level = "partial_compliance"
    /\ Len(ret.value.validation_notes) = Len(calculation_warnings)

----------------------------------------------------------------------------
(* C18: calculate_modified_dietz_return fails with an input error and        *)
(* appends no warning whenever the whole-day span from period_start to       *)
(* period_end is <= 0.                                                       *)
C18_InvalidPeriodRaises ==
    (CalledDietz /\ call.period_end - call.period_start <= 0) =>
        /\ ret = Raised("ValueError")
        /\ calculation_warnings = call.warnings_before

\* a period of no days, with a start value of 0 and a cash flow on that day
C18_Witness ==
    /\ CalledDietz
    /\ call.period_end = call.period_start
    /\ call.start_value = 0
    /\ FlowsWithinPeriod # <<>>
    /\ ret.kind = "raised"

\* the denominator of the Modified Dietz return multiplied by the period's
\* days, and its numerator, from the arguments of the call
DietzDays == call.period_end - call.period_start
DietzFlowSum(f(_)) == SeqSum([j \in 1..Len(FlowsWithinPeriod) |-> f(FlowsWithinPeriod[j])])
DietzDenTimesDays ==
    call.start_value * DietzDays
        + DietzFlowSum(LAMBDA cf : cf.amount * (call.period_end - cf.date))
DietzNum == call.end_value - call.start_value - DietzFlowSum(LAMBDA cf : cf.amount)

(* C19: for a valid period calculate_modified_dietz_return returns 0 with    *)
(* exactly one warning when the denominator start_value + sum of weighted    *)
(* in-period flows is zero (nearer to zero than any other value the model    *)
(* represents), and otherwise (end_value - start_value - sum of in-period    *)
(* flows) / denominator with no warning.                                     *)
C19_DietzDenominator ==
    (CalledDietz /\ DietzDays > 0) =>
        /\ ret.kind = "returned"
        /\ IF DietzDenTimesDays = 0
           THEN ret.value.num = 0 /\ Len(AddedWarnings) = 1
           ELSE /\ ret.value.num * DietzDenTimesDays = DietzNum * DietzDays * ret.value.den
                /\ AddedWarnings = <<>>

----------------------------------------------------------------------------
(* C17: two GIPSCalculator instances share no mutable state: a step of one  *)
(* instance (an append of a calculation, a clear_warnings, a validation)    *)
(* never changes the other instance's calculation_warnings, each instance   *)
(* holds exactly the warnings its own operations recorded, and each         *)
(* validation returns what it would on those warnings alone.                *)
C17_InstancesIndependent ==
    [][\A i \in DOMAIN calculators :
          /\ running'[i] = running[i] =>
                heap'[calculators'[i].calculation_warnings] = WarningsOf(i)
          /\ heap'[calculators'[i].calculation_warnings] = alone'[i]
          /\ running'[i].op = "validate_gips_compliance" =>
                running'[i].outcome =
                    validate_gips_compliance(running'[i].calculation_result, alone'[i])
      ]_vars

\* the first instance is validated FULL_COMPLIANCE while the second holds a
\* warning and is in the middle of a calculation that will append another
C17_Witness ==
    /\ calculators # <<>>
    /\ running[1].op = "validate_gips_compliance"
    /\ running[1].outcome.value.compliance_level = "full_compliance"
    /\ running[2].op = "calculate_time_weighted_return"
    /\ running[2].pending # <<>>
    /\ WarningsOf(2) # <<>>
    /\ WarningsOf(1) = <<>>

----------------------------------------------------------------------------
(* Reference notions for the risk-metrics claims *)

CalledSharpe == call.op = "sharpe_ratio"
AllEqual(xs) == \A i, j \in 1..Len(xs) : xs[i] = xs[j]

(* C20: sharpe_ratio() is NaN exactly when there are fewer than 2            *)
(* observations or the excess returns are all equal (their sample standard   *)
(* deviation is zero); in particular every constant-return series of length  *)
(* >= 2, with the default or a constant risk-free rate, yields NaN.          *)
C20_SharpeNaN ==
    CalledSharpe =>
        /\ ret.value.nan <=> (Len(excess_returns) < 2 \/ AllEqual(excess_returns))
        /\ (Len(risk_returns) >= 2 /\ AllEqual(risk_returns) /\ AllEqual(risk_free_rates))
              => ret.value.nan

----------------------------------------------------------------------------
(* Reference notions for the sub-periods of a time-weighted call *)

\* the k-th valuation of the call by date (the inputs have distinct dates)
ValuationAtRank(k) ==
    LET vs == call.valuations
    IN  vs[CHOOSE i \in 1..Len(vs) :
              Cardinality({j \in 1..Len(vs) : vs[j].date < vs[i].date}) = k - 1]

SubPeriods == 1..(Len(call.valuations) - 1)

\* the sub-periods a cash flow is counted in
SubPeriodsOf(cf) ==
    {k \in SubPeriods :
        ValuationAtRank(k).date < cf.date /\ cf.date <= ValuationAtRank(k + 1).date}

FlowsOf(k) ==
    SeqSum([j \in 1..Len(call.cash_flows) |->
               IF k \in SubPeriodsOf(call.cash_flows[j]) THEN call.cash_flows[j].amount ELSE 0])

\* the sub-periods that start from a market value <= 0, in date order
ForcedSubPeriods ==
    SelectSeq([k \in SubPeriods |-> k], LAMBDA k : ValuationAtRank(k).market_value <= 0)

\* numerator and denominator of the product of the growth factors
RefGrowthNum ==
    SeqProd([k \in SubPeriods |->
                IF ValuationAtRank(k).market_value <= 0 THEN 1
                ELSE ValuationAtRank(k + 1).market_value - FlowsOf(k)])
RefGrowthDen ==
    SeqProd([k \in SubPeriods |->
                IF ValuationAtRank(k).market_value <= 0 THEN 1
                ELSE ValuationAtRank(k).market_value])

(* C24: calculate_time_weighted_return counts each cash flow in the         *)
(* sub-period with start.date < flow.date <= end.date, so in at most one,   *)
(* and in none when it is dated on or before the first valuation or after   *)
(* the last; a sub-period that starts from a market value <= 0 contributes  *)
(* a return of 0 and exactly one warning naming its start date, a           *)
(* sub-period with a positive start no warning, and the call returns.       *)
C24_FlowsAndForcedSubPeriods ==
    (CalledTwr /\ Len(call.valuations) >= 2) =>
        /\ ret.kind = "returned"
        /\ \A j \in 1..Len(call.cash_flows) :
              LET cf == call.cash_flows[j]
              IN  /\ Cardinality(SubPeriodsOf(cf)) <= 1
                  /\ (cf.date <= EarliestValuation.date \/ cf.date > LatestValuation.date)
                        <=> SubPeriodsOf(cf) = {}
        /\ ret.value.den > 0
        /\ ret.value.num * RefGrowthDen = (RefGrowthNum - RefGrowthDen) * ret.value.den
        /\ Len(AddedWarnings) = Len(ForcedSubPeriods)
        /\ \A k \in 1..Len(ForcedSubPeriods) :
              AddedWarnings[k] =
                  "Zero or negative starting value on "
                      \o ToString(ValuationAtRank(ForcedSubPeriods[k]).date)
        /\ IsPrefix(call.warnings_before, calculation_warnings)

\* three valuations, the middle one of value 0, and a non-zero flow dated on
\* the first valuation: one warning, and the flow changes nothing
C24_Witness ==
    /\ CalledTwr
    /\ Len(call.valuations) = 3
    /\ Len(call.cash_flows) = 1
    /\ call.cash_flows[1].date = EarliestValuation.date
    /\ call.cash_flows[1].amount # 0
    /\ EarliestValuation.market_value > 0
    /\ ValuationAtRank(2).market_value = 0
    /\ Len(AddedWarnings) = 1
    /\ ret.kind = "returned"
    /\ ret.value.num = -ret.value.den

(* C25: calculate_money_weighted_return on two or more valuations always    *)
(* returns a rate: after at most max_iterations evaluations it returns,     *)
(* whether the loop converged, stopped on a flat derivative or ran out of   *)
(* iterations; with max_iterations = 0 it returns the initial guess and     *)
(* records the non-convergence warning.                                     *)
C25_AlwaysReturnsRate ==
    (CalledMwr /\ Len(call.valuations) >= 2) =>
        /\ ret.kind = "returned"
        /\ ret.value.rate_after_updates <= call.max_iterations
        /\ call.max_iterations = 0 =>
              /\ ret.value = Rate(0)
              /\ AddedWarnings = <<NotConvergedWarning(0)>>

----------------------------------------------------------------------------
\* the result's method is one of the two time-weighted variants
TimeWeightedVariant ==
    call.calculation_result.calculation_method \in {"time_weighted", "true_time_weighted"}

\* the value of a validation, from the four fields of the result it reads
\* and the warnings on the instance
RefValidation(method, number_of_portfolios, period_start, period_end, warnings) ==
    [compliance_level |->
        IF method \in {"time_weighted", "true_time_weighted"} /\ warnings = <<>>
        THEN "full_compliance" ELSE "partial_compliance",
     validation_notes |->
        (IF method \in {"money_weighted", "modified_dietz"} THEN <<MethodNote>> ELSE <<>>)
        \o (IF number_of_portfolios <= 4 THEN <<PortfoliosNote>> ELSE <<>>)
        \o [k \in 1..Len(warnings) |-> "Calculation warning: " \o warnings[k]]
        \o (IF period_end - period_start <= 364 THEN <<PeriodNote>> ELSE <<>>)]

(* C29: validate_gips_compliance changes nothing on the instance; what it   *)
(* returns is determined by calculation_method, number_of_portfolios,       *)
(* period_start and period_end of the result and by the instance's current  *)
(* warnings, whatever portfolios_data and benchmark_data are; the level is  *)
(* FULL_COMPLIANCE exactly when the method is a time-weighted variant and   *)
(* there are no warnings, so the portfolio count and the period length show *)
(* in the notes only.                                                       *)
C29_ValidationReadsFourFields ==
    CalledValidate =>
        /\ calculation_warnings = call.warnings_before
        /\ ret.kind = "returned"
        /\ ret.value =
              RefValidation(call.calculation_result.calculation_method,
                            call.calculation_result.number_of_portfolios,
                            call.calculation_result.period_start,
                            call.calculation_result.period_end,
                            calculation_warnings)
        /\ ret.value.compliance_level = "full_compliance"
              <=> (TimeWeightedVariant /\ calculation_warnings = <<>>)

\* a FULL_COMPLIANCE validation of a result with too few portfolios and too
\* short a period, called with portfolio and benchmark data
C29_Witness ==
    /\ CalledValidate
    /\ call.portfolios_data # <<>>
    /\ ~call.benchmark_data.none
    /\ PortfolioCheckFails /\ PeriodCheckFails
    /\ ret.value.compliance_level = "full_compliance"
    /\ ret.value.validation_notes = <<PortfoliosNote, PeriodNote>>

----------------------------------------------------------------------------
(* Reference notions for the risk-metrics claims *)

CalledDrawdown == call.op = "maximum_drawdown"
CalledVar == call.op = "var_historical"
CalledCvar == call.op = "cvar_historical"
CalledAllMetrics == call.op = "all_metrics"
CalledRollingRisk == call.op = "calculate_rolling_risk_metrics"

\* the cumulative value after each return of the calculator's vector
CumulativeValue == np_cumprod(OnePlus(risk_returns))

\* the indices (0-based) after `trough` at which the cumulative value is at
\* least the value at `peak`
BackAtPeak(peak, trough) ==
    {i \in (trough + 1)..(Len(risk_returns) - 1) :
        CumulativeValue[i + 1] >= CumulativeValue[peak + 1]}

\* what the claim says of a drawdown record d
DrawdownShape(d) ==
    /\ ~d.max_drawdown.nan
    /\ d.max_drawdown.value >= 0
    /\ d.peak_index.value <= d.trough_index.value
    /\ d.max_drawdown.value > 0 => d.peak_index.value < d.trough_index.value
    /\ LET back == BackAtPeak(d.peak_index.value, d.trough_index.value)
       IN  /\ d.recovery_index.nan <=> back = {}
           /\ ~d.recovery_index.nan =>
                 /\ d.recovery_index.value \in back
                 /\ \A i \in back : d.recovery_index.value <= i

(* C21 as stated: for every return vector of length >= 2,                   *)
(* maximum_drawdown() reports max_drawdown >= 0, peak_index <= trough_index *)
(* (strictly before when max_drawdown > 0), and recovery_index is undefined *)
(* or the first index after the trough where the cumulative value is at     *)
(* least the pre-drawdown peak value, undefined exactly when there is none. *)
C21_DrawdownShapeAlways ==
    (CalledDrawdown /\ Len(risk_returns) >= 2) => DrawdownShape(ret.value)

(* C21 amended: the same for every vector of length >= 2 (returns >= -100%) *)
(* whose first return is not -100%; when the first return is -100% the      *)
(* cumulative value and its running maximum are 0 throughout and            *)
(* max_drawdown is NaN, with peak_index = trough_index = 0.                 *)
C21_DrawdownShapeUnlessTotalLossFirst ==
    (CalledDrawdown /\ Len(risk_returns) >= 2) =>
        /\ risk_returns[1] # -100 => DrawdownShape(ret.value)
        /\ risk_returns[1] = -100 =>
              /\ ret.value.max_drawdown.nan
              /\ ret.value.peak_index = Num(0)
              /\ ret.value.trough_index = Num(0)

\* a drawdown that starts after the first year and is recovered from later
C21_Witness ==
    /\ CalledDrawdown
    /\ Len(risk_returns) >= 4
    /\ ~ret.value.max_drawdown.nan
    /\ ret.value.max_drawdown.value > 0
    /\ ret.value.peak_index.value >= 1
    /\ ~ret.value.recovery_index.nan
    /\ ret.value.recovery_index.value = Len(risk_returns) - 1

(* C22: with at least 10 observations var_historical(0.01) >=               *)
(* var_historical(0.05) and cvar_historical(c) >= var_historical(c) for the *)
(* same confidence c; with fewer than 10 observations var_historical and    *)
(* cvar_historical return NaN.                                              *)
C22_VarOrdering ==
    /\ (CalledVar \/ CalledCvar) =>
          (ret.value.nan <=> Len(risk_returns) < 10)
    /\ (CalledAllMetrics /\ Len(risk_returns) >= 10) =>
          /\ ~ret.value.var_95.nan /\ ~ret.value.var_99.nan
          /\ ~ret.value.cvar_95.nan /\ ~ret.value.cvar_99.nan
          /\ ret.value.var_99.value >= ret.value.var_95.value
          /\ ret.value.cvar_95.value >= ret.value.var_95.value
          /\ ret.value.cvar_99.value >= ret.value.var_99.value

(* C23: calculate_rolling_risk_metrics(returns, w) returns an empty list    *)
(* when len(returns) < w and otherwise len(returns) - w + 1 bundles in      *)
(* window order, the i-th computed on returns[i..i+w-1], with the risk-free *)
(* vector sliced at the same positions when supplied, and tagged            *)
(* window_start_index = i and window_end_index = i + w - 1.                 *)
C23_RollingRiskWindows ==
    CalledRollingRisk =>
        LET n == Len(call.returns)
            w == call.window_size
            result == ret.value
        IN  /\ n < w => result = <<>>
            /\ n >= w =>
                  /\ Len(result) = n - w + 1
                  /\ \A i \in 0..(n - w) :
                        LET window == SubSeq(call.returns, i + 1, i + w)
                            rates == IF call.risk_free_rates = <<>> THEN <<>>
                                     ELSE SubSeq(call.risk_free_rates, i + 1, i + w)
                            excess == [j \in 1..w |->
                                          FlRound(window[j] - (IF rates = <<>>
                                                               THEN RISK_FREE_RATE_DEFAULT
                                                               ELSE rates[j]), 1)]
                            bundle == result[i + 1]
                        IN  /\ bundle.window_start_index = i
                            /\ bundle.window_end_index = i + w - 1
                            /\ bundle.sharpe_ratio = sharpe_ratio(excess)
                            /\ bundle.sortino_ratio = sortino_ratio(excess)
                            /\ bundle.calmar_ratio = calmar_ratio(window)
                            /\ bundle.volatility = volatility(window)
                            /\ bundle.max_drawdown = maximum_drawdown(window).max_drawdown
                            /\ bundle.var_95 = var_historical(window, 5)
                            /\ bundle.cvar_95 = cvar_historical(window, 5)
                            /\ bundle.var_99 = var_historical(window, 1)
                            /\ bundle.cvar_99 = cvar_historical(window, 1)

\* three windows of two years over rates that differ from window to window
C23_Witness ==
    /\ CalledRollingRisk
    /\ Len(call.returns) = 4
    /\ call.window_size = 2
    /\ call.risk_free_rates # <<>>
    /\ call.risk_free_rates[1] # call.risk_free_rates[3]
    /\ Len(ret.value) = 3
    /\ ret.value[1].sharpe_ratio # ret.value[3].sharpe_ratio
    /\ ret.value[3].window_start_index = 2

----------------------------------------------------------------------------
(* Reference notions for the analyses of one DataProcessor *)

CalledAnalysis == call.op = "compute_gips_compliance_analysis"

\* the warnings a calculator with no earlier warnings records for the data
\* of the call
WarningsOfThisCall ==
    calculate_time_weighted_return(call.valuations, call.cash_flows).warnings
    \o MwrOrNone(calculate_money_weighted_return(
            call.valuations, call.cash_flows, MAX_ITERATIONS_DEFAULT,
            TOLERANCE_DEFAULT, call.oracle)).warnings

(* C30: in any sequence of compute_gips_compliance_analysis calls on one    *)
(* DataProcessor each call clears the shared calculator's warnings before   *)
(* calculating, so its validation notes and compliance level reflect the    *)
(* warnings recorded during that call only, never those of an earlier call; *)
(* the result it builds is changed only to attach the compliance level and  *)
(* the notes that validation returned.                                      *)
C30_AnalysisSeesOwnWarningsOnly ==
    CalledAnalysis =>
        LET result == ret.value
            own == WarningsOfThisCall
            short == call.period.period_end - call.period.period_start < 365
        IN  /\ calculation_warnings = own
            /\ result.validation_notes =
                  <<PortfoliosNote>>
                  \o [k \in 1..Len(own) |-> "Calculation warning: " \o own[k]]
                  \o (IF short THEN <<PeriodNote>> ELSE <<>>)
            /\ result.compliance_level =
                  IF own = <<>> THEN "full_compliance" ELSE "partial_compliance"
            /\ [result EXCEPT !.compliance_level = "partial_compliance",
                              !.validation_notes = <<>>]
                  = NewGipsResult(result.time_weighted_return, result.money_weighted_return,
                                  call.period, call.valuations)
            /\ result.calculation_method = "time_weighted"
            /\ result.number_of_portfolios = 1

\* an analysis without warnings, FULL_COMPLIANCE, on a processor whose
\* previous analysis left warnings on the calculator
C30_Witness ==
    /\ CalledAnalysis
    /\ Len(call.warnings_before) >= 2
    /\ calculation_warnings = <<>>
    /\ ret.value.compliance_level = "full_compliance"
    /\ ret.value.validation_notes = <<PortfoliosNote, PeriodNote>>

====
